---- MODULE Spec2Model ----
(***************************************************************************)
(* A model of the ODE simulator's numeric core (ODESimulatorCanvas, the    *)
(* multi-particle component): the expression compiler, the system builder, *)
(* the scope resolver, the RK4 integrator with its animation-frame driver, *)
(* and the Poincare sampler.                                               *)
(*                                                                         *)
(* Numbers.  The program computes in IEEE doubles.  The model computes in  *)
(* exact rationals <<n, d>> (d > 0, lowest terms), so every numeric        *)
(* statement below is a statement about the real-number idealisation of    *)
(* the code; rounding is outside the model.  NaN is the string "NaN".      *)
(*                                                                         *)
(* Strings are TLA+ strings; a character is a string of length 1.          *)
(***************************************************************************)
EXTENDS Integers, Sequences, FiniteSets, TLC

\* ------------------------------------------------------------------------
\* Exact rational arithmetic (the idealisation of JavaScript numbers)
\* ------------------------------------------------------------------------
Abs(n) == IF n < 0 THEN -n ELSE n

RECURSIVE GCD(_, _)
GCD(a, b) == IF b = 0 THEN a ELSE GCD(b, a % b)

Norm(n, d) ==
  LET s == IF d < 0 THEN -1 ELSE 1
      g == GCD(Abs(n), Abs(d))
  IN  <<(s * n) \div g, (s * d) \div g>>

Rat(n, d) == Norm(n, d)
RInt(n) == <<n, 1>>
RZero == <<0, 1>>
ROne == <<1, 1>>
\* sums go over the least common denominator, to keep the integers small
RAdd(a, b) ==
  LET g == GCD(a[2], b[2])
  IN  Norm(a[1] * (b[2] \div g) + b[1] * (a[2] \div g), (a[2] \div g) * b[2])
RNeg(a) == <<-a[1], a[2]>>
RSub(a, b) == RAdd(a, RNeg(b))
RMul(a, b) == Norm(a[1] * b[1], a[2] * b[2])
RDiv(a, b) == Norm(a[1] * b[2], a[2] * b[1])
RLt(a, b) == a[1] * b[2] < b[1] * a[2]
RLe(a, b) == a[1] * b[2] <= b[1] * a[2]
RGt(a, b) == RLt(b, a)
RGe(a, b) == RLe(b, a)
\* Math.floor of a rational, as an integer
RFloor(a) == a[1] \div a[2]

\* ------------------------------------------------------------------------
\* Strings
\* ------------------------------------------------------------------------
Char(s, i) == SubSeq(s, i, i)
Lower == {"a","b","c","d","e","f","g","h","i","j","k","l","m",
          "n","o","p","q","r","s","t","u","v","w","x","y","z"}
Upper == {"A","B","C","D","E","F","G","H","I","J","K","L","M",
          "N","O","P","Q","R","S","T","U","V","W","X","Y","Z"}
Digit == {"0","1","2","3","4","5","6","7","8","9"}
IdentStart == Lower \cup Upper \cup {"_"}
IdentChar == IdentStart \cup Digit
Space == {" "}

\* first index at or after i that is not an identifier character
RECURSIVE IdentEnd(_, _)
IdentEnd(s, i) ==
  IF i <= Len(s) /\ Char(s, i) \in IdentChar THEN IdentEnd(s, i + 1) ELSE i

\* s holds k apostrophes at positions j .. j+k-1
HasPrimes(s, j, k) ==
  /\ j + k - 1 <= Len(s)
  /\ \A q \in j..(j + k - 1) : Char(s, q) = "'"

\* s.replace(/([a-zA-Z_][a-zA-Z0-9_]*)'{k}/g, "$1" + suf), scanning from i.
\* At an identifier start the greedy run ends at j = IdentEnd(s, i); the match
\* succeeds iff k apostrophes follow.  If they do not, no later start inside
\* the same run can match either (each such run ends at the same j), so the
\* scan copies the run and resumes at j.
RECURSIVE ReplacePrimes(_, _, _, _)
ReplacePrimes(s, i, k, suf) ==
  IF i > Len(s) THEN ""
  ELSE IF Char(s, i) \in IdentStart
       THEN LET j == IdentEnd(s, i)
            IN  IF HasPrimes(s, j, k)
                THEN SubSeq(s, i, j - 1) \o suf \o ReplacePrimes(s, j + k, k, suf)
                ELSE SubSeq(s, i, j - 1) \o ReplacePrimes(s, j, k, suf)
       ELSE Char(s, i) \o ReplacePrimes(s, i + 1, k, suf)

preprocessExpr(expr) ==
  IF expr = "" THEN expr
  ELSE ReplacePrimes(ReplacePrimes(ReplacePrimes(expr, 1, 3, "_dddot"),
                                   1, 2, "_ddot"),
                     1, 1, "_dot")

RECURSIVE TrimLeft(_)
TrimLeft(s) ==
  IF Len(s) > 0 /\ Char(s, 1) \in Space THEN TrimLeft(SubSeq(s, 2, Len(s))) ELSE s
\* expr.trim() === ""
IsBlank(s) == TrimLeft(s) = ""

\* ------------------------------------------------------------------------
\* Expression trees (mathjs MathNode), on the model's expression alphabet
\* ------------------------------------------------------------------------
NullNode == [op |-> "null", num |-> RZero, name |-> "", args |-> <<>>]
NumNode(r) == [op |-> "num", num |-> r, name |-> "", args |-> <<>>]
SymNode(n) == [op |-> "sym", num |-> RZero, name |-> n, args |-> <<>>]
StrNode(n) == [op |-> "str", num |-> RZero, name |-> n, args |-> <<>>]
OpNode(o, as) == [op |-> o, num |-> RZero, name |-> "", args |-> as]
CallNode(f, as) == [op |-> "call", num |-> RZero, name |-> f, args |-> as]

IsIdentifier(s) ==
  /\ Len(s) > 0
  /\ Char(s, 1) \in IdentStart
  /\ IdentEnd(s, 1) = Len(s) + 1

IsDigits(s) == Len(s) > 0 /\ \A i \in 1..Len(s) : Char(s, i) \in Digit

DigitVal(c) ==
  CASE c = "0" -> 0 [] c = "1" -> 1 [] c = "2" -> 2 [] c = "3" -> 3
    [] c = "4" -> 4 [] c = "5" -> 5 [] c = "6" -> 6 [] c = "7" -> 7
    [] c = "8" -> 8 [] c = "9" -> 9

RECURSIVE DigitsVal(_)
DigitsVal(s) ==
  IF s = "" THEN 0
  ELSE 10 * DigitsVal(SubSeq(s, 1, Len(s) - 1)) + DigitVal(Char(s, Len(s)))

\* strings of the alphabet that math.parse rejects with a SyntaxError
Malformed == {"1+", "*x", "(", "x+"}

\* math.parse on the alphabet: an identifier is a SymbolNode, a digit string a
\* ConstantNode, "-" before either a unary minus, a few binary forms; TRUE in
\* err stands for the thrown SyntaxError.  Strings outside the alphabet are
\* not given a parse.
Parse(s) ==
  CASE IsIdentifier(s) -> [err |-> FALSE, node |-> SymNode(s)]
    [] IsDigits(s) -> [err |-> FALSE, node |-> NumNode(RInt(DigitsVal(s)))]
    [] Len(s) > 1 /\ Char(s, 1) = "-" /\ IsDigits(SubSeq(s, 2, Len(s))) ->
         [err |-> FALSE,
          node |-> OpNode("neg", <<NumNode(RInt(DigitsVal(SubSeq(s, 2, Len(s)))))>>)]
    [] Len(s) > 1 /\ Char(s, 1) = "-" /\ IsIdentifier(SubSeq(s, 2, Len(s))) ->
         [err |-> FALSE, node |-> OpNode("neg", <<SymNode(SubSeq(s, 2, Len(s)))>>)]
    [] s = "x+y" -> [err |-> FALSE, node |-> OpNode("add", <<SymNode("x"), SymNode("y")>>)]
    [] s = "10*(y-x)" ->
         [err |-> FALSE,
          node |-> OpNode("mul", <<NumNode(RInt(10)),
                                   OpNode("sub", <<SymNode("y"), SymNode("x")>>)>>)]
    [] s = "x*(28-z)-y" ->
         [err |-> FALSE,
          node |-> OpNode("sub",
                     <<OpNode("mul", <<SymNode("x"),
                                       OpNode("sub", <<NumNode(RInt(28)), SymNode("z")>>)>>),
                       SymNode("y")>>)]
    [] s = "x*y-8/3*z" ->
         [err |-> FALSE,
          node |-> OpNode("sub",
                     <<OpNode("mul", <<SymNode("x"), SymNode("y")>>),
                       OpNode("mul", <<OpNode("div", <<NumNode(RInt(8)), NumNode(RInt(3))>>),
                                       SymNode("z")>>)>>)]
    [] s = "2*t" -> [err |-> FALSE, node |-> OpNode("mul", <<NumNode(RInt(2)), SymNode("t")>>)]
    [] s = "x>0" ->
         [err |-> FALSE, node |-> OpNode("larger", <<SymNode("x"), NumNode(RZero)>>)]
    [] Len(s) > 1 /\ Char(s, 1) = "\"" /\ Char(s, Len(s)) = "\"" ->
         [err |-> FALSE, node |-> StrNode(SubSeq(s, 2, Len(s) - 1))]
    [] Len(s) = 9 /\ SubSeq(s, 1, 5) = "dist(" /\ Char(s, 6) \in Digit /\ Char(s, 7) = ","
         /\ Char(s, 8) \in Digit /\ Char(s, 9) = ")" ->
         [err |-> FALSE,
          node |-> CallNode("dist", <<NumNode(RInt(DigitVal(Char(s, 6)))),
                                      NumNode(RInt(DigitVal(Char(s, 8))))>>)]
    [] s \in Malformed -> [err |-> TRUE, node |-> NullNode]

\* (mutant) a rejected string leaves the symbol x behind instead of null
compileExpressionLeaky(expr) ==
  IF expr = "" \/ IsBlank(expr) THEN NullNode
  ELSE LET parsed == Parse(preprocessExpr(expr))
       IN  IF parsed.err THEN SymNode("x") ELSE parsed.node

compileExpression(expr) ==
  IF expr = "" \/ IsBlank(expr) THEN NullNode
  ELSE LET parsed == Parse(preprocessExpr(expr))
       IN  IF parsed.err THEN NullNode ELSE parsed.node

\* ------------------------------------------------------------------------
\* Number(str) on the model's alphabet of initial-condition strings
\* ------------------------------------------------------------------------
\* the value of a field that is absent from the object (initialDot?: string)
Undef == "<undefined>"
NotNumeric == {"abc", Undef}

\* Number(s): a rational, or "NaN"
NumberOf(s) ==
  CASE IsBlank(s) -> RZero
    [] IsDigits(s) -> RInt(DigitsVal(s))
    [] Len(s) > 1 /\ Char(s, 1) = "-" /\ IsDigits(SubSeq(s, 2, Len(s))) ->
         RInt(-DigitsVal(SubSeq(s, 2, Len(s))))
    [] s \in NotNumeric -> "NaN"

\* Number(s) || 0
NumberOr0(s) == IF s \in NotNumeric THEN RZero ELSE NumberOf(s)

\* ------------------------------------------------------------------------
\* Evaluation.  A scope is a function from names to numbers; a name outside
\* its domain is undefined.
\* ------------------------------------------------------------------------
Has(scope, name) == name \in DOMAIN scope

\* what compiled.evaluate(scope) can return, by JavaScript type: a number, a
\* boolean, a string, an array of such values, null or undefined
RawNumber(r) == [num |-> r]
RawBoolean(b) == [bool |-> b]
RawString(str) == [str |-> str]
RawArray(a) == [arr |-> a]
RawNull == [nul |-> TRUE]

\* a double the 32-bit rationals of the model cannot hold; any arithmetic
\* on it stops the check (division by zero) instead of giving a wrong number
Unrepresentable == <<0, 0>>

\* Math.hypot(a, b, c), exact where the sum of the squares is the square of
\* a rational
IsSquare(n) == \E r \in 0..n : r * r = n
RootOf(n) == CHOOSE r \in 0..n : r * r = n
Hypot(a, b, c) ==
  LET sum == RAdd(RMul(a, a), RAdd(RMul(b, b), RMul(c, c)))
  IN  IF IsSquare(sum[1]) /\ IsSquare(sum[2]) THEN Rat(RootOf(sum[1]), RootOf(sum[2]))
      ELSE Unrepresentable

\* getPos(p) of the dist closure: the values the scope holds under the keys
\* of p's first three Variables, 0 for a missing one, padded to three
PosOf(keys, scope, i) ==
  IF i <= Len(keys) /\ Has(scope, keys[i]) THEN scope[keys[i]] ELSE RZero

\* the closure bound to dist, called with the numbers a and b; binding.keys
\* lists per subsystem the keys getPos reads
CallDist(binding, scope, a, b) ==
  IF \/ a[2] # 1 \/ a[1] < 0 \/ a[1] >= Len(binding.keys)
     \/ b[2] # 1 \/ b[1] < 0 \/ b[1] >= Len(binding.keys)
  THEN RZero
  ELSE LET k1 == binding.keys[a[1] + 1]
           k2 == binding.keys[b[1] + 1]
       IN  Hypot(RSub(PosOf(k1, scope, 1), PosOf(k2, scope, 1)),
                 RSub(PosOf(k1, scope, 2), PosOf(k2, scope, 2)),
                 RSub(PosOf(k1, scope, 3), PosOf(k2, scope, 3)))

\* compiled.evaluate(scope): err stands for a thrown error (undefined symbol);
\* the arithmetic nodes are given a value on numbers only
RECURSIVE Evaluate(_, _)
Evaluate(node, scope) ==
  CASE node.op = "num" -> [err |-> FALSE, val |-> RawNumber(node.num)]
    [] node.op = "str" -> [err |-> FALSE, val |-> RawString(node.name)]
    [] node.op = "sym" ->
         IF Has(scope, node.name) THEN [err |-> FALSE, val |-> RawNumber(scope[node.name])]
         ELSE [err |-> TRUE, val |-> RawNull]
    [] node.op = "neg" ->
         LET a == Evaluate(node.args[1], scope)
         IN  IF a.err THEN a ELSE [err |-> FALSE, val |-> RawNumber(RNeg(a.val.num))]
    [] node.op = "call" ->
         LET a == Evaluate(node.args[1], scope)
             b == Evaluate(node.args[2], scope)
         IN  IF ~Has(scope, node.name) THEN [err |-> TRUE, val |-> RawNull]
             ELSE IF a.err THEN a
             ELSE IF b.err THEN b
             ELSE [err |-> FALSE,
                   val |-> RawNumber(CallDist(scope[node.name], scope, a.val.num, b.val.num))]
    [] node.op \in {"add", "sub", "mul", "div", "larger"} ->
         LET a == Evaluate(node.args[1], scope)
             b == Evaluate(node.args[2], scope)
         IN  IF a.err THEN a
             ELSE IF b.err THEN b
             ELSE [err |-> FALSE,
                   val |-> CASE node.op = "add" -> RawNumber(RAdd(a.val.num, b.val.num))
                             [] node.op = "sub" -> RawNumber(RSub(a.val.num, b.val.num))
                             [] node.op = "mul" -> RawNumber(RMul(a.val.num, b.val.num))
                             [] node.op = "div" -> RawNumber(RDiv(a.val.num, b.val.num))
                             [] node.op = "larger" -> RawBoolean(RGt(a.val.num, b.val.num))]

\* Number(v) || 0 for a boolean, a string, null or undefined
NumberOfRaw(v) ==
  CASE "bool" \in DOMAIN v -> IF v.bool THEN ROne ELSE RZero
    [] "str" \in DOMAIN v -> NumberOr0(v.str)
    [] "nul" \in DOMAIN v -> RZero

\* (mutant) every result that is neither a number nor an array becomes 0
coerceToZero(v) ==
  IF "num" \in DOMAIN v THEN v
  ELSE IF "arr" \in DOMAIN v
       THEN (IF Len(v.arr) = 0 \/ "nul" \in DOMAIN v.arr[1] THEN RawNumber(RZero)
             ELSE v.arr[1])
       ELSE RawNumber(RZero)

\* the three returns after evaluate: a number as it is, v[0] ?? 0 of an
\* array, Number(v) || 0 of anything else
coerce(v) ==
  IF "num" \in DOMAIN v THEN v
  ELSE IF "arr" \in DOMAIN v
       THEN (IF Len(v.arr) = 0 \/ "nul" \in DOMAIN v.arr[1] THEN RawNumber(RZero)
             ELSE v.arr[1])
       ELSE RawNumber(NumberOfRaw(v))

evaluateNode(node, scope) ==
  IF node.op = "null" THEN RZero
  ELSE LET v == Evaluate(node, scope)
       IN  IF v.err THEN RZero ELSE coerce(v.val).num

\* ------------------------------------------------------------------------
\* System builder (buildSystem)
\* ------------------------------------------------------------------------
RECURSIVE ConcatAll(_)
ConcatAll(ss) == IF ss = <<>> THEN <<>> ELSE Head(ss) \o ConcatAll(Tail(ss))

Range(f) == {f[i] : i \in DOMAIN f}

\* p.vars.slice(0, 3)
Slice3(vs) == SubSeq(vs, 1, IF Len(vs) < 3 THEN Len(vs) ELSE 3)

\* o === 0 ? '' : o === 1 ? '_dot' : o === 2 ? '_ddot' : '_dddot'
SuffixOf(o) ==
  CASE o = 0 -> "" [] o = 1 -> "_dot" [] o = 2 -> "_ddot" [] o = 3 -> "_dddot"

\* `p${p.id}_${g.name || "x"}`
BaseName(p, g) ==
  "p" \o ToString(p.id) \o "_" \o (IF g.name = "" THEN "x" ELSE g.name)

\* particles.forEach(p => p.vars.slice(0, 3).forEach(g => ...)): the visited
\* (particle, variable) pairs, in order
VarList(ps) ==
  ConcatAll([k \in 1..Len(ps) |->
               [i \in 1..Len(Slice3(ps[k].vars)) |-> [p |-> ps[k], g |-> ps[k].vars[i]]]])

\* (mutant) the order-0 branch is missing: no name for an order-0 variable
ExpandedOfVarNoZero(p, g) ==
  [o \in 1..g.order |-> BaseName(p, g) \o SuffixOf(o - 1)]

\* names pushed on `expanded` for one variable
ExpandedOfVar(p, g) ==
  IF g.order = 0 THEN <<BaseName(p, g)>>
  ELSE [o \in 1..g.order |-> BaseName(p, g) \o SuffixOf(o - 1)]

\* preprocessExpr(g.expr) || "0"
ExprOr0(e) ==
  LET pre == preprocessExpr(e)
  IN  IF pre = "" THEN "0" ELSE pre

\* (mutant) the identities of a higher-order variable are never pushed
ExprsOfVarNoIdentity(p, g) ==
  IF g.order = 0 THEN <<>> ELSE <<ExprOr0(g.expr)>>

\* strings pushed on `exprs` for one variable
ExprsOfVar(p, g) ==
  IF g.order = 0 THEN <<>>
  ELSE IF g.order = 1 THEN <<ExprOr0(g.expr)>>
  ELSE [o \in 1..(g.order - 1) |-> BaseName(p, g) \o SuffixOf(o)]
         \o <<ExprOr0(g.expr)>>

\* ids pushed on `exprPids` for one variable
PidsOfVar(p, g) == IF g.order = 0 THEN <<>> ELSE <<p.id>>

\* values pushed on `s0` for one variable
S0OfVar(p, g) ==
  [o \in 1..g.order |->
     CASE o = 1 -> NumberOr0(g.initial)
       [] o = 2 -> NumberOr0(g.initialDot)
       [] o = 3 -> NumberOr0(g.initialDDot)
       [] OTHER -> RZero]

\* keys written to `map` for one variable, in the order of stateIdx++
SlotsOfVar(p, g) == [o \in 1..g.order |-> BaseName(p, g) \o SuffixOf(o - 1)]

ExpandedOf(ps) ==
  LET vl == VarList(ps)
  IN  ConcatAll([i \in 1..Len(vl) |-> ExpandedOfVar(vl[i].p, vl[i].g)])
ExprsOf(ps) ==
  LET vl == VarList(ps)
  IN  ConcatAll([i \in 1..Len(vl) |-> ExprsOfVar(vl[i].p, vl[i].g)])
ExprPidsOf(ps) ==
  LET vl == VarList(ps)
  IN  ConcatAll([i \in 1..Len(vl) |-> PidsOfVar(vl[i].p, vl[i].g)])
S0Of(ps) ==
  LET vl == VarList(ps)
  IN  ConcatAll([i \in 1..Len(vl) |-> S0OfVar(vl[i].p, vl[i].g)])
SlotsOf(ps) ==
  LET vl == VarList(ps)
  IN  ConcatAll([i \in 1..Len(vl) |-> SlotsOfVar(vl[i].p, vl[i].g)])

\* map[key] = stateIdx++ over the slots: a later write of a key replaces the
\* earlier one; indices are 0-based as in the code
MapOf(ps) ==
  LET slots == SlotsOf(ps)
  IN  [n \in Range(slots) |->
         (CHOOSE i \in 1..Len(slots) :
            /\ slots[i] = n
            /\ \A j \in 1..Len(slots) : slots[j] = n => j <= i) - 1]

\* exprs.map(e => compileExpression(e))
CompiledOf(ps) ==
  LET es == ExprsOf(ps)
  IN  [i \in 1..Len(es) |-> compileExpression(es[i])]

\* ------------------------------------------------------------------------
\* Scope resolver (createEvalScope, getFullScope)
\* ------------------------------------------------------------------------
\* scope[key] = v
Put(scope, key, v) == (key :> v) @@ scope

\* { t: tNow, ...baseScope }: g = 9.80665; eps0, mu0, k, G keep their keys
baseScope ==
  [n \in {"eps0", "mu0", "k", "g", "G"} |->
     IF n = "g" THEN Rat(196133, 20000) ELSE Unrepresentable]

\* the (particle, variable, derivative) triples createEvalScope visits, in
\* order: for each variable the derivatives 0..order-1, and the variable
\* itself when its order is 0.  p.vars is not sliced and the name has no
\* "x" fallback here.
AliasesOfVar(p, g) ==
  IF g.order = 0
  THEN <<[pid |-> p.id, short |-> g.name,
          full |-> "p" \o ToString(p.id) \o "_" \o g.name]>>
  ELSE [i \in 1..g.order |->
          [pid |-> p.id, short |-> g.name \o SuffixOf(i - 1),
           full |-> "p" \o ToString(p.id) \o "_" \o g.name \o SuffixOf(i - 1)]]

AliasList(ps) ==
  ConcatAll([k \in 1..Len(ps) |->
               ConcatAll([i \in 1..Len(ps[k].vars) |-> AliasesOfVar(ps[k], ps[k].vars[i])])])

\* one visited triple: the id-suffixed alias, then the unprefixed alias with
\* priority current particle > first writer
ApplyAlias(a, forParticleId, sourceScope, evalScope) ==
  IF ~Has(sourceScope, a.full) THEN evalScope
  ELSE LET withSuffixed == Put(evalScope, a.short \o ToString(a.pid), sourceScope[a.full])
       IN  IF a.pid = forParticleId \/ ~Has(withSuffixed, a.short)
           THEN Put(withSuffixed, a.short, sourceScope[a.full])
           ELSE withSuffixed

\* the loops below hand each intermediate scope on as a value: the set
\* constructor binds it once it is computed
RECURSIVE ApplyAliases(_, _, _, _)
ApplyAliases(as, forParticleId, sourceScope, evalScope) ==
  IF as = <<>> THEN evalScope
  ELSE CHOOSE r \in {ApplyAliases(Tail(as), forParticleId, sourceScope, next) :
                       next \in {ApplyAlias(Head(as), forParticleId, sourceScope, evalScope)}} :
         TRUE

createEvalScope(ps, forParticleId, sourceScope) ==
  CHOOSE r \in {ApplyAliases(AliasList(ps), forParticleId, src, src) : src \in {sourceScope}} :
    TRUE

\* the order-0 variables getFullScope evaluates, in order (p.vars not sliced)
ZeroOrderList(ps) ==
  ConcatAll([k \in 1..Len(ps) |->
    ConcatAll([i \in 1..Len(ps[k].vars) |->
      IF ps[k].vars[i].order = 0 THEN <<[p |-> ps[k], g |-> ps[k].vars[i]]>> ELSE <<>>])])

\* one pass of the dependency loop over the remaining order-0 variables
RECURSIVE ZeroOrderPass(_, _, _)
ZeroOrderPass(ps, zs, scope) ==
  IF zs = <<>> THEN scope
  ELSE CHOOSE r \in
         {ZeroOrderPass(ps, Tail(zs), next) :
            next \in {Put(scope, BaseName(Head(zs).p, Head(zs).g),
                          evaluateNode(compileExpression(Head(zs).g.expr),
                                       createEvalScope(ps, Head(zs).p.id, scope)))}} :
         TRUE

RECURSIVE ZeroOrderPasses(_, _, _)
ZeroOrderPasses(ps, n, scope) ==
  IF n = 0 THEN scope
  ELSE CHOOSE r \in {ZeroOrderPasses(ps, n - 1, next) :
                       next \in {ZeroOrderPass(ps, ZeroOrderList(ps), scope)}} :
         TRUE

\* number of passes of the dependency loop: for (let i = 0; i < 3; i++)
ScopePasses == 3

\* getFullScope(y, tNow) for the layout `map` (nameToIndexRef.current): the
\* scope { t, ...baseScope } with the state slots written over it, then the
\* dependency loop
seedScope(map, y, tNow) ==
  [n \in DOMAIN map |-> y[map[n] + 1]] @@ ("t" :> tNow) @@ baseScope

\* (mutant) the dependency loop stops after two passes
getFullScopeTwoPasses(ps, map, y, tNow) ==
  ZeroOrderPasses(ps, ScopePasses - 1, seedScope(map, y, tNow))

getFullScope(ps, map, y, tNow) ==
  ZeroOrderPasses(ps, ScopePasses, seedScope(map, y, tNow))

\* ------------------------------------------------------------------------
\* Integrator (evalDeriv, rk4)
\* ------------------------------------------------------------------------
\* the sequence s itself, held as an evaluated tuple
Held(s) == s \o <<>>

\* exprParticleIdsRef.current[i] past the end of the array is undefined; no
\* particle has id 0
NoPid == 0

\* (mutant) a fault in one equation is not caught per equation: it ends the
\* evaluation of the whole derivative vector, which is then all zeros
evalDerivAborting(ps, lay, y, tNow) ==
  LET scopeBase == getFullScope(ps, lay.map, y, tNow)
      faulty(i) ==
        \/ lay.compiled[i].op = "null"
        \/ Evaluate(lay.compiled[i],
                    createEvalScope(ps, IF i <= Len(lay.pids) THEN lay.pids[i] ELSE NoPid,
                                    scopeBase)).err
  IN  Held([i \in 1..Len(lay.compiled) |->
         IF \E j \in 1..Len(lay.compiled) : faulty(j) THEN RZero
         ELSE evaluateNode(lay.compiled[i],
                           createEvalScope(ps,
                                           IF i <= Len(lay.pids) THEN lay.pids[i] ELSE NoPid,
                                           scopeBase))])

\* evalScope.dist = (p1_idx, p2_idx) => ...: the closure over particles, held
\* as the keys `p${p.id}_${g.name}` of p.vars.slice(0, 3) per subsystem
DistBinding(ps) ==
  [keys |-> [k \in 1..Len(ps) |->
               [j \in 1..Len(Slice3(ps[k].vars)) |->
                  "p" \o ToString(ps[k].id) \o "_" \o ps[k].vars[j].name]]]

\* lay is the layout held by the refs: [compiled, pids, map]
evalDeriv(ps, lay, y, tNow) ==
  LET scopeBase == getFullScope(ps, lay.map, y, tNow)
  IN  Held([i \in 1..Len(lay.compiled) |->
         evaluateNode(lay.compiled[i],
                      Put(createEvalScope(ps,
                                          IF i <= Len(lay.pids) THEN lay.pids[i] ELSE NoPid,
                                          scopeBase),
                          "dist", DistBinding(ps)))])

\* a.map((v, i) => v + (b[i] ?? 0) * scale)
addScaled(a, b, scale) ==
  Held([i \in 1..Len(a) |-> RAdd(a[i], RMul(IF i <= Len(b) THEN b[i] ELSE RZero, scale))])

\* (mutant) k3 is evaluated at s1 instead of s2
rk4StaleStage(ps, lay, st, h, tNow) ==
  LET k1 == evalDeriv(ps, lay, st, tNow)
      s1 == addScaled(st, k1, RDiv(h, RInt(2)))
      k2 == evalDeriv(ps, lay, s1, RAdd(tNow, RDiv(h, RInt(2))))
      k3 == evalDeriv(ps, lay, s1, RAdd(tNow, RDiv(h, RInt(2))))
      s3 == addScaled(st, k3, h)
      k4 == evalDeriv(ps, lay, s3, RAdd(tNow, h))
  IN  Held([i \in 1..Len(st) |->
         RAdd(st[i],
              RMul(RDiv(h, RInt(6)),
                   RAdd(RAdd(k1[i], RMul(RInt(2), k2[i])),
                        RAdd(RMul(RInt(2), k3[i]), k4[i]))))])

rk4(ps, lay, st, h, tNow) ==
  LET k1 == evalDeriv(ps, lay, st, tNow)
      s1 == addScaled(st, k1, RDiv(h, RInt(2)))
      k2 == evalDeriv(ps, lay, s1, RAdd(tNow, RDiv(h, RInt(2))))
      s2 == addScaled(st, k2, RDiv(h, RInt(2)))
      k3 == evalDeriv(ps, lay, s2, RAdd(tNow, RDiv(h, RInt(2))))
      s3 == addScaled(st, k3, h)
      k4 == evalDeriv(ps, lay, s3, RAdd(tNow, h))
  IN  Held([i \in 1..Len(st) |->
         RAdd(st[i],
              RMul(RDiv(h, RInt(6)),
                   RAdd(RAdd(k1[i], RMul(RInt(2), k2[i])),
                        RAdd(RMul(RInt(2), k3[i]), k4[i]))))])

\* ------------------------------------------------------------------------
\* State of the component
\* ------------------------------------------------------------------------
VARIABLES
  particles,            \* useState<Particle[]>
  activePid,            \* useState<number>
  poincareConfig,       \* useState<PoincareConfig>
  poincarePoints,       \* useState<THREE.Vector3[]>, as <<x, y>> pairs
  running,              \* useState(false)
  afterReset,           \* "returned" once resetAll() has returned and its re-render
                        \* is pending, "held" from that re-render until the
                        \* simulation is started again, "none" otherwise
  dt,                   \* useState<number>(0.01)
  playbackSpeed,        \* useState<number>(1)
  compiledRef,          \* useRef<(MathNode | null)[]>
  exprParticleIdsRef,   \* useRef<number[]>
  expandedVarNamesRef,  \* useRef<string[]>
  nameToIndexRef,       \* useRef<Record<string, number>>
  stateRef,             \* useRef<number[]>
  genHistoryRef,        \* useRef<{time, values}[]>
  timeRef,              \* useRef<number>(0)
  rafRef,               \* TRUE when an animation-frame callback is requested
  accumulated,          \* `let accumulated` of the main-loop effect
  pc,                   \* "idle", or "loop" inside the for loop of a frame callback
  steps,                \* `let steps` of the running frame callback
  sIdx,                 \* loop index `s` of the running frame callback
  edits,                \* number of edits made so far (bounds the exploration)
  ticks,                \* frame callbacks run so far (bounds the exploration)
  builds,               \* buildSystem passes run on the current particles (capped)
  variableParses        \* math.parse calls on Variable expressions made by the
                        \* latest step; 0 after a buildSystem pass

layoutVars == <<compiledRef, exprParticleIdsRef, expandedVarNamesRef, nameToIndexRef,
                variableParses>>
engineVars == <<stateRef, genHistoryRef, timeRef>>
loopVars == <<rafRef, accumulated, pc, steps, sIdx>>
uiVars == <<particles, activePid, edits>>
\* largest value the count of passes on unchanged particles is tracked to
MaxBuilds == 2
BuildsAfterPass == IF builds < MaxBuilds THEN builds + 1 ELSE builds
configVars == <<poincareConfig, running, afterReset, dt, playbackSpeed>>
vars == <<particles, activePid, poincareConfig, poincarePoints, running,
          afterReset, dt, playbackSpeed, compiledRef, exprParticleIdsRef, expandedVarNamesRef,
          nameToIndexRef, stateRef, genHistoryRef, timeRef, rafRef, accumulated,
          pc, steps, sIdx, edits, ticks, builds, variableParses>>

\* the layout the refs hold, as evalDeriv and rk4 read it
Layout == [compiled |-> compiledRef, pids |-> exprParticleIdsRef, map |-> nameToIndexRef]

\* (mutant) `expanded` starts from the previous list instead of []
buildSystemAppending(ps) ==
  /\ expandedVarNamesRef' = expandedVarNamesRef \o ExpandedOf(ps)
  /\ compiledRef' = CompiledOf(ps)
  /\ exprParticleIdsRef' = ExprPidsOf(ps)
  /\ stateRef' = S0Of(ps)
  /\ nameToIndexRef' = MapOf(ps)
  /\ variableParses' = 0

\* buildSystem(): every ref it assigns, from the particles of the render
buildSystem(ps) ==
  /\ expandedVarNamesRef' = ExpandedOf(ps)
  /\ compiledRef' = CompiledOf(ps)
  /\ exprParticleIdsRef' = ExprPidsOf(ps)
  /\ stateRef' = S0Of(ps)
  /\ nameToIndexRef' = MapOf(ps)
  /\ variableParses' = 0

\* ------------------------------------------------------------------------
\* Alphabets of user input
\* ------------------------------------------------------------------------
GenVar(n, o, i0, e) ==
  [name |-> n, order |-> o, initial |-> i0, initialDot |-> Undef,
   initialDDot |-> Undef, expr |-> e]
Particle(id, vs) == [id |-> id, color |-> "#ff4d4d", visible |-> TRUE, vars |-> vs]

VarNames == {"x", "y", "", "x_dot"}
Orders == 0..3
ExprStrings == {"x'", "y", "", " ", "1+"}
InitialStrings == {"1", "abc"}
InitialDotStrings == {"2", ""}
InitialDDotStrings == {"-1"}

\* the particles of the first render
DefaultParticles ==
  <<Particle(1, <<GenVar("x", 1, "1", "10*(y-x)"), GenVar("y", 1, "0", "x*(28-z)-y"),
                  GenVar("z", 1, "0", "x*y-8/3*z")>>)>>

\* largest number of edits explored from the first render
MaxEdits == 1
\* largest number of particles explored
MaxParticles == 2

PoincareDefaults ==
  [mode |-> "time", period |-> "1", planeVar |-> "", planeValue |-> "0",
   direction |-> "positive", plotX |-> "p1_x", plotY |-> "p1_y"]

\* ------------------------------------------------------------------------
\* Editing the system: each handler calls setParticles, and the effect on
\* [particles, buildSystem, updatePositions] then runs buildSystem(); the
\* main-loop effect, which depends on particles too, restarts its closure
\* ------------------------------------------------------------------------
Rebuilt(ps) ==
  /\ particles' = ps
  /\ buildSystem(ps)
  /\ edits' = edits + 1
  /\ builds' = 1
  /\ rafRef' = running
  /\ accumulated' = RZero
  /\ UNCHANGED <<poincareConfig, poincarePoints, running, afterReset, dt, playbackSpeed,
                 genHistoryRef, timeRef, pc, steps, sIdx, ticks>>

CanEdit == pc = "idle" /\ edits < MaxEdits

\* prev.map(p => p.id !== activePid ? p : {...p, vars: p.vars.map(...)})
PatchVar(i, field, v) ==
  [k \in 1..Len(particles) |->
     IF particles[k].id # activePid THEN particles[k]
     ELSE [particles[k] EXCEPT !.vars =
             [j \in 1..Len(particles[k].vars) |->
                IF j = i THEN [particles[k].vars[j] EXCEPT ![field] = v]
                ELSE particles[k].vars[j]]]]

\* patch.expr.replace(/=/g, "")
RECURSIVE StripEquals(_)
StripEquals(e) ==
  IF e = "" THEN ""
  ELSE (IF Char(e, 1) = "=" THEN "" ELSE Char(e, 1)) \o StripEquals(SubSeq(e, 2, Len(e)))

ActiveVarIndexes ==
  UNION {1..Len(particles[k].vars) : k \in {k \in 1..Len(particles) : particles[k].id = activePid}}

updateVarOrder ==
  /\ CanEdit
  /\ \E i \in ActiveVarIndexes, o \in Orders :
       /\ Rebuilt(PatchVar(i, "order", o))
       /\ UNCHANGED activePid

updateVarName ==
  /\ CanEdit
  /\ \E i \in ActiveVarIndexes, n \in VarNames :
       /\ Rebuilt(PatchVar(i, "name", n))
       /\ UNCHANGED activePid

updateVarExpr ==
  /\ CanEdit
  /\ \E i \in ActiveVarIndexes, e \in ExprStrings \cup {"=y"} :
       /\ Rebuilt(PatchVar(i, "expr", StripEquals(e)))
       /\ UNCHANGED activePid

updateVarInitial ==
  /\ CanEdit
  /\ \E i \in ActiveVarIndexes :
       /\ \/ \E v \in InitialStrings : Rebuilt(PatchVar(i, "initial", v))
          \/ \E v \in InitialDotStrings : Rebuilt(PatchVar(i, "initialDot", v))
          \/ \E v \in InitialDDotStrings : Rebuilt(PatchVar(i, "initialDDot", v))
       /\ UNCHANGED activePid

addVariable ==
  /\ CanEdit
  /\ Rebuilt([k \in 1..Len(particles) |->
       IF particles[k].id # activePid \/ Len(particles[k].vars) >= 3 THEN particles[k]
       ELSE [particles[k] EXCEPT !.vars =
               Append(@, GenVar("x" \o ToString(Len(particles[k].vars) + 1), 1, "0", "0"))]])
  /\ UNCHANGED activePid

\* p.vars.filter((_, j) => j !== i)
removeVariable ==
  /\ CanEdit
  /\ \E i \in ActiveVarIndexes :
       Rebuilt([k \in 1..Len(particles) |->
         IF particles[k].id # activePid THEN particles[k]
         ELSE [particles[k] EXCEPT !.vars =
                 SubSeq(@, 1, i - 1) \o SubSeq(@, i + 1, Len(@))]])
  /\ UNCHANGED activePid

MaxId(ps) ==
  IF ps = <<>> THEN 0
  ELSE CHOOSE m \in {ps[k].id : k \in 1..Len(ps)} : \A k \in 1..Len(ps) : ps[k].id <= m

addParticle ==
  /\ CanEdit
  /\ Len(particles) < MaxParticles
  /\ Rebuilt(Append(particles, Particle(MaxId(particles) + 1, <<GenVar("x", 1, "0", "0")>>)))
  /\ activePid' = MaxId(particles) + 1

\* prev.filter(p => p.id !== pid)
RECURSIVE WithoutPid(_, _)
WithoutPid(ps, pid) ==
  IF ps = <<>> THEN <<>>
  ELSE (IF Head(ps).id = pid THEN <<>> ELSE <<Head(ps)>>) \o WithoutPid(Tail(ps), pid)

removeParticle ==
  /\ CanEdit
  /\ \E k \in 1..Len(particles) :
       /\ Rebuilt(WithoutPid(particles, particles[k].id))
       /\ activePid' =
            IF activePid = particles[k].id
            THEN (IF WithoutPid(particles, particles[k].id) = <<>> THEN 0
                  ELSE WithoutPid(particles, particles[k].id)[1].id)
            ELSE activePid

setActivePid ==
  /\ CanEdit
  /\ \E k \in 1..Len(particles) :
       /\ activePid' = particles[k].id
       /\ activePid' # activePid
  /\ edits' = edits + 1
  /\ UNCHANGED <<particles, builds, poincareConfig, poincarePoints, running, afterReset, dt, playbackSpeed,
                 layoutVars, engineVars, loopVars, ticks>>

\* the sidebar reset button: buildSystem(); updatePositions(stateRef.current, 0)
sidebarReset ==
  /\ pc = "idle"
  /\ buildSystem(particles)
  /\ builds' = BuildsAfterPass
  /\ UNCHANGED <<uiVars, poincareConfig, poincarePoints, running, afterReset, dt, playbackSpeed,
                 genHistoryRef, timeRef, loopVars, ticks>>

\* applyAndCompile(): buildSystem(); timeRef = 0; genHistoryRef = []
applyAndCompile ==
  /\ pc = "idle"
  /\ buildSystem(particles)
  /\ builds' = BuildsAfterPass
  /\ timeRef' = RZero
  /\ genHistoryRef' = <<>>
  /\ UNCHANGED <<uiVars, poincareConfig, poincarePoints, running, afterReset, dt, playbackSpeed,
                 loopVars, ticks>>

\* ------------------------------------------------------------------------
\* The builder under edits, from the first render (simulation stopped)
\* ------------------------------------------------------------------------
\* systems the editor reaches from the first render: the first render itself,
\* one particle with orders 2, 3 and 0, and two particles sharing the name x
BuildSeeds ==
  { DefaultParticles,
    <<Particle(1, <<[GenVar("x", 2, "1", "y") EXCEPT !.initialDot = "2"],
                    [GenVar("y", 3, "abc", "x'") EXCEPT !.initialDot = "", !.initialDDot = "-1"],
                    GenVar("z", 0, "0", "x+y")>>)>>,
    <<Particle(1, <<GenVar("x", 1, "1", "-x")>>),
      Particle(2, <<GenVar("x", 2, "0", "x'")>>)>> }

\* the state once the mount effects have run on the particles ps
Mounted(ps) ==
  /\ particles = ps
  /\ activePid = 1
  /\ poincarePoints = <<>>
  /\ running = FALSE
  /\ afterReset = "none"
  /\ expandedVarNamesRef = ExpandedOf(ps)
  /\ compiledRef = CompiledOf(ps)
  /\ variableParses = 0
  /\ exprParticleIdsRef = ExprPidsOf(ps)
  /\ stateRef = S0Of(ps)
  /\ nameToIndexRef = MapOf(ps)
  /\ genHistoryRef = <<>>
  /\ timeRef = RZero
  /\ rafRef = FALSE
  /\ accumulated = RZero
  /\ pc = "idle"
  /\ steps = 0
  /\ sIdx = 0
  /\ edits = 0
  /\ ticks = 0
  /\ builds = 1

InitBuild ==
  /\ \E ps \in BuildSeeds : Mounted(ps)
  /\ poincareConfig = PoincareDefaults
  /\ dt = Rat(1, 100)
  /\ playbackSpeed = ROne

NextBuild ==
  \/ updateVarOrder
  \/ updateVarName
  \/ updateVarExpr
  \/ updateVarInitial
  \/ addVariable
  \/ removeVariable
  \/ addParticle
  \/ removeParticle
  \/ setActivePid
  \/ sidebarReset
  \/ applyAndCompile

SpecBuild == InitBuild /\ [][NextBuild]_vars

\* ------------------------------------------------------------------------
\* The main loop: the effect on [running, dt, playbackSpeed, ..., particles,
\* rk4, getFullScope, poincareConfig] and its animation-frame callback `step`
\* ------------------------------------------------------------------------
\* steps = Math.min(steps, 10)
MaxStepsPerFrame == 10
\* if (genHistoryRef.current.length > 2000) genHistoryRef.current.shift()
HistoryCap == 2000

\* largest number of frame callbacks explored
MaxTicks == 2
\* (now - last) / 1000 of a frame callback, in seconds
ElapsedChoices == {Rat(1, 5), RInt(7)}

\* the effect body after a change of one of its dependencies: the cleanup
\* cancels the pending request; while running, a new closure starts with
\* accumulated = 0 and requests a frame
RestartLoop(run) ==
  /\ rafRef' = run
  /\ accumulated' = RZero

\* (mutant) stopping does not cancel the requested frame
toggleRunningNoCancel ==
  /\ pc = "idle"
  /\ afterReset # "returned"
  /\ running' = ~running
  /\ afterReset' = IF running THEN afterReset ELSE "none"
  /\ rafRef' = (rafRef \/ ~running)
  /\ accumulated' = RZero
  /\ UNCHANGED <<uiVars, builds, poincareConfig, poincarePoints, dt, playbackSpeed,
                 layoutVars, engineVars, pc, steps, sIdx, ticks>>

\* toggleRunning(): setRunning(r => !r), then the effect
toggleRunning ==
  /\ pc = "idle"
  /\ afterReset # "returned"
  /\ running' = ~running
  /\ afterReset' = IF running THEN afterReset ELSE "none"
  /\ RestartLoop(~running)
  /\ UNCHANGED <<uiVars, builds, poincareConfig, poincarePoints, dt, playbackSpeed,
                 layoutVars, engineVars, pc, steps, sIdx, ticks>>

\* (mutant) the cap of 10 is missing
ClaimedStepsUncapped(acc, stepSize) ==
  LET raw == RFloor(RDiv(acc, stepSize))
  IN  IF raw <= 0 THEN 0 ELSE raw

\* Math.floor(accumulated / stepSize), then `if (steps <= 0) return`,
\* then Math.min(steps, 10): the number of loop iterations of the callback
ClaimedSteps(acc, stepSize) ==
  LET raw == RFloor(RDiv(acc, stepSize))
  IN  IF raw <= 0 THEN 0
      ELSE IF raw < MaxStepsPerFrame THEN raw ELSE MaxStepsPerFrame

\* (mutant) a requested callback may run between the return of resetAll()
\* and the re-render that cancels it
FrameBeforeRerender(limit, elapsedSet) ==
  /\ pc = "idle"
  /\ rafRef
  /\ ticks < limit
  /\ \E elapsed \in elapsedSet :
       /\ accumulated' = RAdd(accumulated, RMul(elapsed, playbackSpeed))
       /\ steps' = ClaimedSteps(accumulated', dt)
  /\ sIdx' = 0
  /\ pc' = IF steps' > 0 THEN "loop" ELSE "idle"
  /\ rafRef' = TRUE
  /\ ticks' = ticks + 1
  /\ UNCHANGED <<uiVars, builds, configVars, poincarePoints, layoutVars, engineVars>>

\* step(now), up to the for loop; the callback runs only while requested.
\* The component is a client component of the app router ("use client"), so
\* the update a click handler makes is rendered, and the cleanup of its
\* effects run, before the task of the click ends: no callback starts
\* between the return of resetAll() and that cleanup
Frame(limit, elapsedSet) ==
  /\ pc = "idle"
  /\ afterReset # "returned"
  /\ rafRef
  /\ ticks < limit
  /\ \E elapsed \in elapsedSet :
       /\ accumulated' = RAdd(accumulated, RMul(elapsed, playbackSpeed))
       /\ steps' = ClaimedSteps(accumulated', dt)
  /\ sIdx' = 0
  /\ pc' = IF steps' > 0 THEN "loop" ELSE "idle"
  /\ rafRef' = TRUE
  /\ ticks' = ticks + 1
  /\ UNCHANGED <<uiVars, builds, configVars, poincarePoints, layoutVars, engineVars>>

frameCallback == Frame(MaxTicks, ElapsedChoices)

\* historyValues: fullScope[name] for every expanded name, 0 when not a number
HistoryValues(fullScope) ==
  Held([i \in 1..Len(expandedVarNamesRef) |->
          IF Has(fullScope, expandedVarNamesRef[i]) THEN fullScope[expandedVarNamesRef[i]]
          ELSE RZero])

\* (mutant) the entry is stamped before timeRef is advanced
HistoryEntryStale(tOld, tNew, values) == [time |-> tOld, values |-> values]

\* { time: timeRef.current, values: historyValues }, read after the increment
HistoryEntry(tOld, tNew, values) == [time |-> tNew, values |-> values]

\* (mutant) the newest entry is dropped instead of the oldest
PushHistoryPop(hist, entry) ==
  IF Len(hist) + 1 > HistoryCap THEN hist ELSE Append(hist, entry)

\* push, then shift when the length exceeds the cap
PushHistory(hist, entry) ==
  IF Len(hist) + 1 > HistoryCap THEN Tail(Append(hist, entry)) ELSE Append(hist, entry)

\* (mutant) the typeof checks are missing: an unresolved coordinate counts 0
samplePoincareUnchecked(points, scope) ==
  Append(points,
         <<IF Has(scope, poincareConfig.plotX) THEN scope[poincareConfig.plotX] ELSE RZero,
           IF Has(scope, poincareConfig.plotY) THEN scope[poincareConfig.plotY] ELSE RZero>>)

\* (mutant) the new point is put in front of the earlier ones
samplePoincarePrepend(points, scope) ==
  IF Has(scope, poincareConfig.plotX) /\ Has(scope, poincareConfig.plotY)
  THEN <<<<scope[poincareConfig.plotX], scope[poincareConfig.plotY]>>>> \o points
  ELSE points

\* samplePoincare(state, scope): the points after the call
samplePoincare(points, scope) ==
  IF Has(scope, poincareConfig.plotX) /\ Has(scope, poincareConfig.plotY)
  THEN Append(points, <<scope[poincareConfig.plotX], scope[poincareConfig.plotY]>>)
  ELSE points

\* time mode: T = evaluateNode(compileExpression(period), fullScope) || 0
PeriodOf(fullScope) == evaluateNode(compileExpression(poincareConfig.period), fullScope)

\* (mutant) Math.round in place of Math.floor
TimeSampleRounded(fullScope, tNew, h) ==
  LET T == PeriodOf(fullScope)
  IN  /\ RGt(T, RZero)
      /\ RFloor(RAdd(RDiv(tNew, T), Rat(1, 2))) >
           RFloor(RAdd(RDiv(RSub(tNew, h), T), Rat(1, 2)))

\* (mutant) the quotient is compared with >= : every step samples
TimeSampleEveryStep(fullScope, tNew, h) ==
  LET T == PeriodOf(fullScope)
  IN  /\ RGt(T, RZero)
      /\ RFloor(RDiv(tNew, T)) >= RFloor(RDiv(RSub(tNew, h), T))

\* time mode: T > 0 and floor(t / T) > floor((t - h) / T)
TimeSample(fullScope, tNew, h) ==
  LET T == PeriodOf(fullScope)
  IN  /\ RGt(T, RZero)
      /\ RFloor(RDiv(tNew, T)) > RFloor(RDiv(RSub(tNew, h), T))

\* (mutant) the post-step value must pass the plane strictly
CrossedStrict(direction, prev, new, planeVal) ==
  \/ direction = "positive" /\ RLt(prev, planeVal) /\ RGt(new, planeVal)
  \/ direction = "negative" /\ RGt(prev, planeVal) /\ RLt(new, planeVal)
  \/ /\ direction = "both"
     /\ \/ RLt(prev, planeVal) /\ RGt(new, planeVal)
        \/ RGt(prev, planeVal) /\ RLt(new, planeVal)

\* plane mode: the crossing test on the two values of planeVar
Crossed(direction, prev, new, planeVal) ==
  \/ direction = "positive" /\ RLt(prev, planeVal) /\ RGe(new, planeVal)
  \/ direction = "negative" /\ RGt(prev, planeVal) /\ RLe(new, planeVal)
  \/ /\ direction = "both"
     /\ \/ RLt(prev, planeVal) /\ RGe(new, planeVal)
        \/ RGt(prev, planeVal) /\ RLe(new, planeVal)

\* plane mode: both values are numbers and the crossing test holds
PlaneSample(fullScope, prevScope) ==
  /\ Has(fullScope, poincareConfig.planeVar)
  /\ Has(prevScope, poincareConfig.planeVar)
  /\ Crossed(poincareConfig.direction, prevScope[poincareConfig.planeVar],
             fullScope[poincareConfig.planeVar], NumberOr0(poincareConfig.planeValue))

\* the Poincare block of one loop iteration: does it call samplePoincare
Sampled(fullScope, prevScope, tNew, h) ==
  \/ poincareConfig.mode = "time" /\ TimeSample(fullScope, tNew, h)
  \/ poincareConfig.mode = "plane" /\ PlaneSample(fullScope, prevScope)

\* poincarePoints after the sampling block of one iteration
NextPoints(points, fullScope, prevScope, tNew, h) ==
  IF Sampled(fullScope, prevScope, tNew, h) THEN samplePoincare(points, fullScope) ELSE points

\* math.parse calls one getFullScope makes: compileExpression(g_eval.expr) in
\* each pass for each order-0 Variable, past its early return on a blank
\* string
RECURSIVE ParsedCount(_)
ParsedCount(zs) ==
  IF zs = <<>> THEN 0
  ELSE (IF Head(zs).g.expr = "" \/ IsBlank(Head(zs).g.expr) THEN 0 ELSE 1)
       + ParsedCount(Tail(zs))
ParsesOfScope(ps) == ScopePasses * ParsedCount(ZeroOrderList(ps))

\* the getFullScope calls of one step: one in each of the four evalDeriv
\* calls of rk4, one after the step and, in plane mode, one for prevScope
ParsesOfStep(ps, cfg) ==
  4 * ParsesOfScope(ps) + ParsesOfScope(ps)
    + (IF cfg.mode = "plane" THEN ParsesOfScope(ps) ELSE 0)

\* one iteration of `for (let s = 0; s < steps; s++)`; prevState and the
\* pre-step time are stateRef and timeRef, newState and the advanced time
\* are stateRef' and timeRef'
loopIteration ==
  /\ pc = "loop"
  /\ stateRef' = rk4(particles, Layout, stateRef, dt, timeRef)
  /\ timeRef' = RAdd(timeRef, dt)
  /\ genHistoryRef' =
       PushHistory(genHistoryRef,
                   HistoryEntry(timeRef, timeRef',
                                HistoryValues(getFullScope(particles, nameToIndexRef,
                                                           stateRef', timeRef'))))
  /\ poincarePoints' =
       NextPoints(poincarePoints,
                  getFullScope(particles, nameToIndexRef, stateRef', timeRef'),
                  getFullScope(particles, nameToIndexRef, stateRef, timeRef),
                  timeRef', dt)
  /\ accumulated' = RSub(accumulated, dt)
  /\ sIdx' = sIdx + 1
  /\ pc' = IF sIdx + 1 < steps THEN "loop" ELSE "idle"
  /\ variableParses' = ParsesOfStep(particles, poincareConfig)
  /\ UNCHANGED <<uiVars, builds, configVars, compiledRef, exprParticleIdsRef,
                 expandedVarNamesRef, nameToIndexRef, rafRef, steps, ticks>>

\* resetAll(): setRunning(false); timeRef = 0; genHistoryRef = []; buildSystem()
resetAll ==
  /\ pc = "idle"
  /\ running' = FALSE
  /\ afterReset' = "held"
  /\ timeRef' = RZero
  /\ genHistoryRef' = <<>>
  /\ buildSystem(particles)
  /\ builds' = BuildsAfterPass
  /\ RestartLoop(FALSE)
  /\ UNCHANGED <<uiVars, poincareConfig, poincarePoints, dt, playbackSpeed,
                 pc, steps, sIdx, ticks>>

\* the body of resetAll() alone: the refs are reset and the state re-seeded,
\* setRunning(false) is queued and the frame callback is still requested
resetAllBody ==
  /\ pc = "idle"
  /\ afterReset # "returned"
  /\ timeRef' = RZero
  /\ genHistoryRef' = <<>>
  /\ buildSystem(particles)
  /\ builds' = BuildsAfterPass
  /\ afterReset' = "returned"
  /\ UNCHANGED <<uiVars, poincareConfig, poincarePoints, running, dt, playbackSpeed,
                 loopVars, ticks>>

\* the re-render resetAll() queued: running is false, the cleanup of the
\* main-loop effect cancels the requested frame and the effect requests none
resetAllRerender ==
  /\ pc = "idle"
  /\ afterReset = "returned"
  /\ running' = FALSE
  /\ afterReset' = "held"
  /\ RestartLoop(FALSE)
  /\ UNCHANGED <<uiVars, builds, poincareConfig, poincarePoints, dt, playbackSpeed,
                 layoutVars, engineVars, pc, steps, sIdx, ticks>>

\* onClear(): setPoincarePoints([])
onClear ==
  /\ pc = "idle"
  /\ poincarePoints # <<>>
  /\ poincarePoints' = <<>>
  /\ UNCHANGED <<uiVars, builds, configVars, layoutVars, engineVars, loopVars, ticks>>

\* ------------------------------------------------------------------------
\* The driver, from systems whose trajectories stay small rationals
\* ------------------------------------------------------------------------
\* x' = 1 from -1 with y' = -1 from 1
RampSystem ==
  <<Particle(1, <<GenVar("x", 1, "-1", "1"), GenVar("y", 1, "1", "-1")>>)>>
\* x'' = 0 from (-1, 1), with the order-0 Variable y = x'
CoastSystem ==
  <<Particle(1, <<[GenVar("x", 2, "-1", "0") EXCEPT !.initialDot = "1"],
                  GenVar("y", 0, "0", "x'")>>)>>

Directions == {"positive", "negative", "both"}
TimeConfig(period) == [PoincareDefaults EXCEPT !.period = period]
PlaneConfig(planeVar, planeValue, direction) ==
  [PoincareDefaults EXCEPT !.mode = "plane", !.planeVar = planeVar,
                           !.planeValue = planeValue, !.direction = direction]
Setting(ps, cfg, h, speed) == [ps |-> ps, cfg |-> cfg, dt |-> h, speed |-> speed]

\* settings the panels reach before the simulation is started
DriverSettings ==
  {Setting(RampSystem, TimeConfig(v), Rat(1, 2), ROne) : v \in {"1", "t", "-1", "", "x"}}
  \cup {Setting(RampSystem, TimeConfig("1"), RInt(3), ROne),
        Setting(RampSystem, TimeConfig("2"), Rat(1, 2), RInt(2)),
        Setting(RampSystem, [TimeConfig("1") EXCEPT !.plotX = "p9_x"], Rat(1, 2), ROne),
        Setting(RampSystem, TimeConfig("1"), Rat(-1, 2), ROne)}
  \cup {Setting(RampSystem, PlaneConfig("p1_x", "0", d), Rat(1, 2), ROne) : d \in Directions}
  \cup {Setting(RampSystem, PlaneConfig("p1_y", "abc", d), Rat(1, 2), ROne) :
          d \in {"negative", "both"}}
  \cup {Setting(RampSystem, PlaneConfig("", "0", "positive"), Rat(1, 2), ROne),
        Setting(RampSystem, PlaneConfig("p9_x", "0", "both"), Rat(1, 2), ROne),
        Setting(RampSystem, [PlaneConfig("p1_x", "0", "positive") EXCEPT !.plotY = "p9_y"],
                Rat(1, 2), ROne),
        Setting(CoastSystem, PlaneConfig("p1_x", "1", "positive"), Rat(1, 2), ROne),
        Setting(CoastSystem, PlaneConfig("p1_y", "1", "both"), Rat(1, 2), ROne),
        Setting(CoastSystem, TimeConfig("t"), Rat(3, 10), ROne),
        Setting(RampSystem, TimeConfig("1"), Rat(3, 10), ROne)}
  \cup {Setting(RampSystem, PlaneConfig("p1_x", "0", d), RInt(2), ROne) :
          d \in {"positive", "negative"}}

Init ==
  \E st \in DriverSettings :
    /\ Mounted(st.ps)
    /\ poincareConfig = st.cfg
    /\ dt = st.dt
    /\ playbackSpeed = st.speed

Next ==
  \/ toggleRunning
  \/ frameCallback
  \/ loopIteration
  \/ resetAll
  \/ onClear

Spec == Init /\ [][Next]_vars

\* ------------------------------------------------------------------------
\* The driver with resetAll() taken in its two parts, the handler and the
\* re-render it queues
\* ------------------------------------------------------------------------
NextReset ==
  \/ toggleRunning
  \/ frameCallback
  \/ loopIteration
  \/ resetAllBody
  \/ resetAllRerender

SpecReset == Init /\ [][NextReset]_vars

\* ------------------------------------------------------------------------
\* A long run of x' = 1, y' = -1 with h = 1/2, picked up where it was paused
\* shortly before the history reaches its cap; its frames claim exactly ten
\* steps or exactly one
\* ------------------------------------------------------------------------
\* number of steps the run had taken when it was paused
StepsBeforePause == 1950
\* number of frame callbacks explored after the pause
MaxTicksLong == 7
\* (now - last) / 1000 of its frame callbacks: ten steps of 1/2, or one
ElapsedSteady == {RInt(5), Rat(1, 2)}

frameSteady == Frame(MaxTicksLong, ElapsedSteady)

\* the entry the k-th step of this run pushes: rk4 is exact on constant
\* right-hand sides, so x = -1 + t and y = 1 - t at t = k * dt
EntryOfStep(k) ==
  [time |-> RMul(RInt(k), dt),
   values |-> <<RAdd(RInt(-1), RMul(RInt(k), dt)), RSub(ROne, RMul(RInt(k), dt))>>]

InitLong ==
  /\ particles = RampSystem
  /\ activePid = 1
  /\ poincareConfig = TimeConfig("")
  /\ poincarePoints = <<>>
  /\ running = FALSE
  /\ afterReset = "none"
  /\ dt = Rat(1, 2)
  /\ playbackSpeed = ROne
  /\ expandedVarNamesRef = ExpandedOf(RampSystem)
  /\ compiledRef = CompiledOf(RampSystem)
  /\ variableParses = 0
  /\ exprParticleIdsRef = ExprPidsOf(RampSystem)
  /\ nameToIndexRef = MapOf(RampSystem)
  /\ stateRef = EntryOfStep(StepsBeforePause).values
  /\ genHistoryRef = Held([k \in 1..StepsBeforePause |-> EntryOfStep(k)])
  /\ timeRef = EntryOfStep(StepsBeforePause).time
  /\ rafRef = FALSE
  /\ accumulated = RZero
  /\ pc = "idle"
  /\ steps = 10
  /\ sIdx = 10
  /\ edits = 0
  /\ ticks = 0
  /\ builds = 1

NextLong ==
  \/ toggleRunning
  \/ frameSteady
  \/ loopIteration

SpecLong == InitLong /\ [][NextLong]_vars

\* ------------------------------------------------------------------------
\* rk4 as a function: one loop iteration from a state vector, a time and a
\* step size drawn from bounded sets
\* ------------------------------------------------------------------------
\* x' = x
ExpSystem == <<Particle(1, <<GenVar("x", 1, "1", "x")>>)>>
\* x' = y, y' = -x
RotSystem == <<Particle(1, <<GenVar("x", 1, "1", "y"), GenVar("y", 1, "0", "-x")>>)>>
\* x' = 2t
ClockSystem == <<Particle(1, <<GenVar("x", 1, "0", "2*t")>>)>>
\* x' = q with no q in any scope, beside y' = x
UnknownSystem == <<Particle(1, <<GenVar("x", 1, "1", "q"), GenVar("y", 1, "0", "x")>>)>>
\* x' = "1+", which math.parse rejects, beside y' = -x
MalformedSystem == <<Particle(1, <<GenVar("x", 1, "1", "1+"), GenVar("y", 1, "0", "-x")>>)>>
\* x' = y beside y' = x*(28-z)-y with no z in any scope
PartialSystem ==
  <<Particle(1, <<GenVar("x", 1, "1", "y"), GenVar("y", 1, "0", "x*(28-z)-y")>>)>>
FaultSystems == {UnknownSystem, MalformedSystem, PartialSystem}
\* x' = x>0, a boolean; x' = "5" and x' = "abc", string literals
BooleanSystem == <<Particle(1, <<GenVar("x", 1, "1", "x>0")>>)>>
DigitStringSystem == <<Particle(1, <<GenVar("x", 1, "1", "\"5\"")>>)>>
WordStringSystem == <<Particle(1, <<GenVar("x", 1, "1", "\"abc\"")>>)>>
CoercionSystems == {BooleanSystem, DigitStringSystem, WordStringSystem}
RK4Systems == {ExpSystem, RotSystem, ClockSystem} \cup FaultSystems \cup CoercionSystems

\* largest magnitude of a drawn state entry
MaxY == 2
StepSizes == {Rat(1, 2), Rat(1, 10), Rat(3, 10), ROne}
StartTimes == {RZero, Rat(1, 2), ROne}
StartStates(ps) == [1..Len(S0Of(ps)) -> {RInt(v) : v \in -MaxY..MaxY}]

\* inside a frame callback that claimed one step, about to run it
InitRK4 ==
  \E ps \in RK4Systems :
    /\ particles = ps
    /\ activePid = 1
    /\ poincareConfig = PoincareDefaults
    /\ poincarePoints = <<>>
    /\ running = TRUE
    /\ afterReset = "none"
    /\ dt \in StepSizes
    /\ playbackSpeed = ROne
    /\ expandedVarNamesRef = ExpandedOf(ps)
    /\ compiledRef = CompiledOf(ps)
    /\ variableParses = 0
    /\ exprParticleIdsRef = ExprPidsOf(ps)
    /\ nameToIndexRef = MapOf(ps)
    /\ stateRef \in StartStates(ps)
    /\ genHistoryRef = <<>>
    /\ timeRef \in StartTimes
    /\ rafRef = TRUE
    /\ accumulated = dt
    /\ pc = "loop"
    /\ steps = 1
    /\ sIdx = 0
    /\ edits = 0
    /\ ticks = 1
    /\ builds = 1

NextRK4 == loopIteration

SpecRK4 == InitRK4 /\ [][NextRK4]_vars

\* ------------------------------------------------------------------------
\* The driver under live edits: Variable edits, Poincare panel changes,
\* apply, reset and clear between the frame callbacks of a run
\* ------------------------------------------------------------------------
\* largest number of frame callbacks explored under live edits
MaxTicksOps == 2
\* (now - last) / 1000 of its frame callbacks: one step of 1/2, or two
ElapsedOps == {Rat(1, 2), ROne}

frameOps == Frame(MaxTicksOps, ElapsedOps)

\* updateVar(i, patch) calls explored while the driver runs
LivePatches ==
  { <<1, [order |-> 2]>>, <<2, [name |-> "z"]>>, <<1, [initial |-> "1"]>> }

\* updateVar(i, patch) on the active particle: vars.map((v, idx) =>
\* idx === i ? {...v, ...patch} : v)
updateVar ==
  /\ CanEdit
  /\ \E e \in LivePatches :
       /\ e[1] \in ActiveVarIndexes
       /\ Rebuilt([k \in 1..Len(particles) |->
            IF particles[k].id # activePid THEN particles[k]
            ELSE [particles[k] EXCEPT !.vars =
                    [j \in 1..Len(particles[k].vars) |->
                       IF j = e[1] THEN e[2] @@ particles[k].vars[j]
                       ELSE particles[k].vars[j]]]])
  /\ UNCHANGED activePid

\* colours the picker offers while the driver runs
Colors == {"#ff4d4d", "#3399ff"}

\* updateParticleColor(pid, color): prev.map(...) is a new array whatever the
\* colour, so the effect on [particles, ...] runs buildSystem()
updateParticleColor ==
  /\ CanEdit
  /\ \E k \in 1..Len(particles), c \in Colors :
       Rebuilt([particles EXCEPT ![k].color = c])
  /\ UNCHANGED activePid

\* toggleParticleVisibility(pid)
toggleParticleVisibility ==
  /\ CanEdit
  /\ \E k \in 1..Len(particles) :
       Rebuilt([particles EXCEPT ![k].visible = ~particles[k].visible])
  /\ UNCHANGED activePid

\* onConfigChange(newConfig) calls explored while the driver runs
ConfigPatches ==
  { [mode |-> "plane"], [mode |-> "time"], [planeVar |-> "p1_x"], [plotY |-> "p1_z"] }

\* onConfigChange(newConfig): setPoincareConfig(prev => ({...prev, ...newConfig}));
\* poincareConfig is a dependency of the main-loop effect
onConfigChange ==
  /\ CanEdit
  /\ \E patch \in ConfigPatches :
       /\ poincareConfig' = patch @@ poincareConfig
       /\ poincareConfig' # poincareConfig
  /\ edits' = edits + 1
  /\ RestartLoop(running)
  /\ UNCHANGED <<particles, activePid, builds, poincarePoints, running, afterReset, dt, playbackSpeed,
                 layoutVars, engineVars, pc, steps, sIdx, ticks>>

\* settings the run under live edits starts from
OpsSettings ==
  { Setting(RampSystem, PlaneConfig("p1_x", "0", "positive"), Rat(1, 2), ROne),
    Setting(RampSystem, TimeConfig("1"), Rat(1, 2), ROne) }

InitOps ==
  \E st \in OpsSettings :
    /\ Mounted(st.ps)
    /\ poincareConfig = st.cfg
    /\ dt = st.dt
    /\ playbackSpeed = st.speed

NextOps ==
  \/ toggleRunning
  \/ frameOps
  \/ loopIteration
  \/ resetAll
  \/ applyAndCompile
  \/ sidebarReset
  \/ updateVar
  \/ updateParticleColor
  \/ toggleParticleVisibility
  \/ onConfigChange
  \/ onClear

SpecOps == InitOps /\ [][NextOps]_vars

\* ------------------------------------------------------------------------
\* Chains of order-0 Variables: x reads y, y reads z, z reads the state slot
\* q or t; every declaration order, within one subsystem and across two
\* ------------------------------------------------------------------------
StateQ == GenVar("q", 1, "2", "1")
ChainVars(ex, ey, ez) ==
  <<GenVar("x", 0, "0", ex), GenVar("y", 0, "0", ey), GenVar("z", 0, "0", ez)>>
Permutations3 ==
  {<<1, 2, 3>>, <<1, 3, 2>>, <<2, 1, 3>>, <<2, 3, 1>>, <<3, 1, 2>>, <<3, 2, 1>>}

\* the chain vs (three Variables in declaration order) beside q: split over
\* two subsystems after its k-th Variable, or alone in the first subsystem
ChainLayouts(vs) ==
  {<<Particle(1, <<StateQ>> \o SubSeq(vs, 1, k)), Particle(2, SubSeq(vs, k + 1, 3))>> :
     k \in 0..2}
  \cup {<<Particle(1, vs), Particle(2, <<StateQ>>)>>}

ChainSystems ==
  UNION {ChainLayouts([i \in 1..3 |-> ChainVars(ex, ey, ez)[perm[i]]]) :
           perm \in Permutations3, ex \in {"y", "-y"}, ey \in {"z", "-z"},
           ez \in {"q", "-q", "2*t"}}

\* a chain one level deeper than the loop has passes, declared from its
\* head to its tail: x reads y, y reads z, z reads w, w reads q
LongChain ==
  <<Particle(1, ChainVars("y", "z", "w")),
    Particle(2, <<GenVar("w", 0, "0", "q"), StateQ>>)>>

\* inside a frame callback that claimed two steps of 1/2
InitChain ==
  \E ps \in ChainSystems \cup {LongChain} :
    /\ particles = ps
    /\ activePid = 1
    /\ poincareConfig = PoincareDefaults
    /\ poincarePoints = <<>>
    /\ running = TRUE
    /\ afterReset = "none"
    /\ dt = Rat(1, 2)
    /\ playbackSpeed = ROne
    /\ expandedVarNamesRef = ExpandedOf(ps)
    /\ compiledRef = CompiledOf(ps)
    /\ variableParses = 0
    /\ exprParticleIdsRef = ExprPidsOf(ps)
    /\ nameToIndexRef = MapOf(ps)
    /\ stateRef = S0Of(ps)
    /\ genHistoryRef = <<>>
    /\ timeRef \in {RZero, Rat(1, 2)}
    /\ rafRef = TRUE
    /\ accumulated = ROne
    /\ pc = "loop"
    /\ steps = 2
    /\ sIdx = 0
    /\ edits = 0
    /\ ticks = 1
    /\ builds = 1

NextChain == loopIteration

SpecChain == InitChain /\ [][NextChain]_vars

\* ------------------------------------------------------------------------
\* Subsystems that share names: two or three subsystems, each with one of a
\* few Variable lists, every initial value telling its owner (10 * id + the
\* position of the Variable, + 5 for the first derivative)
\* ------------------------------------------------------------------------
OwnedVar(id, n, o, i, e) ==
  [GenVar(n, o, ToString(10 * id + i), e) EXCEPT !.initialDot = ToString(10 * id + i + 5)]

VarLists == {"x", "y", "xy", "xx2", "g"}
VarsOf(id, c, e) ==
  CASE c = "x" -> <<OwnedVar(id, "x", 1, 1, e)>>
    [] c = "y" -> <<OwnedVar(id, "y", 2, 1, e)>>
    [] c = "xy" -> <<OwnedVar(id, "x", 1, 1, e), OwnedVar(id, "y", 1, 2, "1")>>
    [] c = "xx2" -> <<OwnedVar(id, "x", 1, 1, e), OwnedVar(id, "x2", 1, 2, "1")>>
    [] c = "g" -> <<OwnedVar(id, "g", 1, 1, e)>>

\* right-hand sides of the first Variable of the first subsystem
FirstExprs == {"1", "y2'", "x2", "g"}

SharedNameSystems ==
  {<<Particle(1, VarsOf(1, c1, e)), Particle(2, VarsOf(2, c2, "1"))>> :
     c1 \in VarLists, c2 \in VarLists, e \in FirstExprs}
  \cup {<<Particle(1, VarsOf(1, c1, e)), Particle(2, VarsOf(2, c2, "1")),
          Particle(3, VarsOf(3, c3, "1"))>> :
          c1 \in VarLists, c2 \in VarLists, c3 \in VarLists, e \in FirstExprs}

\* inside a frame callback that claimed two steps of 1/2
InitShared ==
  \E ps \in SharedNameSystems :
    /\ particles = ps
    /\ activePid = 1
    /\ poincareConfig = PoincareDefaults
    /\ poincarePoints = <<>>
    /\ running = TRUE
    /\ afterReset = "none"
    /\ dt = Rat(1, 2)
    /\ playbackSpeed = ROne
    /\ expandedVarNamesRef = ExpandedOf(ps)
    /\ compiledRef = CompiledOf(ps)
    /\ variableParses = 0
    /\ exprParticleIdsRef = ExprPidsOf(ps)
    /\ nameToIndexRef = MapOf(ps)
    /\ stateRef = S0Of(ps)
    /\ genHistoryRef = <<>>
    /\ timeRef = RZero
    /\ rafRef = TRUE
    /\ accumulated = ROne
    /\ pc = "loop"
    /\ steps = 2
    /\ sIdx = 0
    /\ edits = 0
    /\ ticks = 1
    /\ builds = 1

NextShared == loopIteration

SpecShared == InitShared /\ [][NextShared]_vars

\* ------------------------------------------------------------------------
\* Systems that call dist: subsystems 1 and 2 are points in the plane that
\* move together, subsystem 3 holds an equation w' = e and an order-0
\* Variable d = e, e a call of dist
\* ------------------------------------------------------------------------
PointVars(x0, y0) == <<GenVar("x", 1, x0, "1"), GenVar("y", 1, y0, "0")>>
DistCalls == {"dist(0,1)", "dist(1,0)", "dist(0,0)", "dist(0,5)"}
DistSystems ==
  {<<Particle(1, PointVars(x1, "0")), Particle(2, PointVars(xy[1], xy[2])),
     Particle(3, <<GenVar("w", 1, "0", e), GenVar("d", 0, "0", a)>>)>> :
     x1 \in {"0", "1"}, xy \in {<<"4", "0">>, <<"3", "0">>, <<"0", "0">>},
     e \in DistCalls \cup {"d"}, a \in DistCalls}
  \cup {<<Particle(1, PointVars("0", "0")), Particle(2, PointVars("3", "4")),
          Particle(3, <<GenVar("w", 1, "0", e), GenVar("d", 0, "0", a)>>)>> :
          e \in DistCalls \cup {"d"}, a \in DistCalls}

\* inside a frame callback that claimed two steps of 1/2
InitDist ==
  \E ps \in DistSystems :
    /\ particles = ps
    /\ activePid = 1
    /\ poincareConfig = PoincareDefaults
    /\ poincarePoints = <<>>
    /\ running = TRUE
    /\ afterReset = "none"
    /\ dt = Rat(1, 2)
    /\ playbackSpeed = ROne
    /\ expandedVarNamesRef = ExpandedOf(ps)
    /\ compiledRef = CompiledOf(ps)
    /\ variableParses = 0
    /\ exprParticleIdsRef = ExprPidsOf(ps)
    /\ nameToIndexRef = MapOf(ps)
    /\ stateRef = S0Of(ps)
    /\ genHistoryRef = <<>>
    /\ timeRef = RZero
    /\ rafRef = TRUE
    /\ accumulated = ROne
    /\ pc = "loop"
    /\ steps = 2
    /\ sIdx = 0
    /\ edits = 0
    /\ ticks = 1
    /\ builds = 1

NextDist == loopIteration

SpecDist == InitDist /\ [][NextDist]_vars

\* ------------------------------------------------------------------------
\* Properties of the system builder (checked under SpecBuild)
\* ------------------------------------------------------------------------
RECURSIVE SumOrders(_)
SumOrders(vl) == IF vl = <<>> THEN 0 ELSE Head(vl).g.order + SumOrders(Tail(vl))

\* number of state slots that precede the i-th visited variable
SlotOffset(vl, i) == SumOrders(SubSeq(vl, 1, i - 1))

\* the entry the builder makes of a user expression: its parse after the
\* apostrophe rewriting, the constant 0 when the string is empty
UserEntry(e) == IF e = "" THEN NumNode(RZero) ELSE compileExpression(e)

\* the initial condition of derivative k (0-based) of a variable
InitialOf(g, k) ==
  NumberOr0(CASE k = 0 -> g.initial [] k = 1 -> g.initialDot [] k = 2 -> g.initialDDot)

\* C1: a Variable of order N in 0..3 gets exactly N state slots (its N initial
\* conditions, at consecutive indices) and exactly N equation entries at the
\* same indices: N-1 identities, each the symbol of the next derivative's
\* slot, followed by one entry holding the user expression; an order-0
\* Variable gets neither.
C1_OrderNSlotsAndEquations ==
  LET vl == VarList(particles)
  IN  /\ Len(stateRef) = SumOrders(vl)
      /\ Len(compiledRef) = SumOrders(vl)
      /\ \A i \in 1..Len(vl) :
           LET g == vl[i].g
               off == SlotOffset(vl, i)
           IN  /\ \A k \in 1..g.order : stateRef[off + k] = InitialOf(g, k - 1)
               /\ \A k \in 1..(g.order - 1) :
                    compiledRef[off + k] = SymNode(BaseName(vl[i].p, g) \o SuffixOf(k))
               /\ g.order >= 1 => compiledRef[off + g.order] = UserEntry(g.expr)

\* a system holding Variables of all four orders, one with a primed expression
C1_Witness ==
  /\ \A o \in Orders : \E i \in 1..Len(VarList(particles)) : VarList(particles)[i].g.order = o
  /\ \E i \in 1..Len(VarList(particles)) :
       /\ VarList(particles)[i].g.order = 3
       /\ VarList(particles)[i].g.expr = "x'"

OrderZeroCount(vl) == Cardinality({i \in 1..Len(vl) : vl[i].g.order = 0})

\* the qualified slot names of the Variables of order > 0
SlotNameSet(vl) ==
  UNION {{BaseName(vl[i].p, vl[i].g) \o SuffixOf(k) : k \in 0..(vl[i].g.order - 1)} :
           i \in 1..Len(vl)}

\* C2 (as stated): expandedNames, nameToIndex and the state vector all have
\* exactly sum-of-orders entries.
C2_Original ==
  LET n == SumOrders(VarList(particles))
  IN  /\ Len(expandedVarNamesRef) = n
      /\ Cardinality(DOMAIN nameToIndexRef) = n
      /\ Len(stateRef) = n

\* C2 (amended): the state vector has exactly sum-of-orders entries;
\* nameToIndex has one key per distinct qualified slot name of the order>0
\* Variables (so at most that many, and exactly that many when the slot
\* names are pairwise distinct) and its indices are within the state vector;
\* expandedNames has sum-of-orders entries plus one entry, the base name,
\* for every order-0 Variable.
C2_SlotCounts ==
  LET vl == VarList(particles)
      n == SumOrders(vl)
  IN  /\ Len(stateRef) = n
      /\ Len(expandedVarNamesRef) = n + OrderZeroCount(vl)
      /\ DOMAIN nameToIndexRef = SlotNameSet(vl)
      /\ Cardinality(DOMAIN nameToIndexRef) <= n
      /\ \A k \in DOMAIN nameToIndexRef : nameToIndexRef[k] \in 0..(n - 1)
      /\ (\A i, j \in 1..Len(SlotsOf(particles)) :
            i # j => SlotsOf(particles)[i] # SlotsOf(particles)[j])
           => Cardinality(DOMAIN nameToIndexRef) = n
      /\ \A i \in 1..Len(vl) :
           vl[i].g.order = 0 =>
             \E k \in 1..Len(expandedVarNamesRef) :
               expandedVarNamesRef[k] = BaseName(vl[i].p, vl[i].g)

\* a system with an order-0 Variable beside Variables of order 2 and 3
C2_Witness ==
  /\ OrderZeroCount(VarList(particles)) >= 1
  /\ \E i \in 1..Len(VarList(particles)) : VarList(particles)[i].g.order = 3
  /\ Len(stateRef) >= 5

DerivOf(ps, y, t) ==
  CASE ps = ExpSystem -> <<y[1]>>
    [] ps = RotSystem -> <<y[2], RNeg(y[1])>>
    [] ps = ClockSystem -> <<RMul(RInt(2), t)>>
    [] ps = UnknownSystem -> <<RZero, y[1]>>
    [] ps = MalformedSystem -> <<RZero, RNeg(y[1])>>
    [] ps = PartialSystem -> <<y[2], RZero>>
    [] ps = BooleanSystem -> <<IF RGt(y[1], RZero) THEN ROne ELSE RZero>>
    [] ps = DigitStringSystem -> <<RInt(5)>>
    [] ps = WordStringSystem -> <<RZero>>

\* y + c * k, entry by entry
Axpy(y, c, k) == [i \in 1..Len(y) |-> RAdd(y[i], RMul(c, k[i]))]

\* y + h/6 * (k1 + 2*k2 + 2*k3 + k4) with the four classic stages
ClassicRK4(ps, y, h, t) ==
  LET half == RDiv(h, RInt(2))
      k1 == DerivOf(ps, y, t)
      k2 == DerivOf(ps, Axpy(y, half, k1), RAdd(t, half))
      k3 == DerivOf(ps, Axpy(y, half, k2), RAdd(t, half))
      k4 == DerivOf(ps, Axpy(y, h, k3), RAdd(t, h))
  IN  [i \in 1..Len(y) |->
         RAdd(y[i], RMul(RDiv(h, RInt(6)),
                         RAdd(RAdd(k1[i], RMul(RInt(2), k2[i])),
                              RAdd(RMul(RInt(2), k3[i]), k4[i]))))]

\* 1 + h + h^2/2 + h^3/6 + h^4/24
ExpFactor(h) ==
  RAdd(RAdd(RAdd(ROne, h), RDiv(RMul(h, h), RInt(2))),
       RAdd(RDiv(RMul(h, RMul(h, h)), RInt(6)),
            RDiv(RMul(RMul(h, h), RMul(h, h)), RInt(24))))

\* C4: one RK4 step on state y at time t with step h returns
\* y + h/6*(k1 + 2*k2 + 2*k3 + k4) with k1 = f(y,t), k2 = f(y + h/2*k1, t + h/2),
\* k3 = f(y + h/2*k2, t + h/2), k4 = f(y + h*k3, t + h); for the single
\* order-1 Variable x with expr "x" the step multiplies x by
\* 1 + h + h^2/2 + h^3/6 + h^4/24.
C4_RK4Step ==
  [][/\ stateRef' = ClassicRK4(particles, stateRef, dt, timeRef)
     /\ particles = ExpSystem => stateRef'[1] = RMul(stateRef[1], ExpFactor(dt))]_vars

\* x' = x from x = 1 has taken one step of 1/2: 1 + 1/2 + 1/8 + 1/48 + 1/384
C4_Witness ==
  /\ particles = ExpSystem
  /\ dt = Rat(1, 2)
  /\ pc = "idle"
  /\ sIdx = 1
  /\ stateRef = <<Rat(633, 384)>>

\* ------------------------------------------------------------------------
\* Claims about the driver
\* ------------------------------------------------------------------------
Min(a, b) == IF a < b THEN a ELSE b

\* the accumulator of the running callback as it was right after
\* `accumulated += elapsed * playbackSpeed`, when it has run n iterations and
\* holds acc: each iteration has taken one step size from it
TickBudget(acc, n) == RAdd(acc, RMul(RInt(n), dt))

\* a frame callback returns in this step
TickEnds == pc' = "idle" /\ (pc = "loop" \/ ticks' = ticks + 1)

\* C5: in every tick with h > 0 and accumulator a after adding
\* elapsed*speed, the number of steps run is min(floor(a/h), 10), never more
\* than 10; after the tick the accumulator is a - (steps run)*h, so the time
\* the cap leaves unconsumed is kept, and when floor(a/h) <= 10 the remaining
\* accumulator is in [0, h).
C5_StepsPerTick ==
  [][/\ ticks' = ticks + 1 =>
          /\ sIdx' = 0
          /\ accumulated' \in
               {RAdd(accumulated, RMul(e, playbackSpeed)) : e \in ElapsedChoices}
     /\ pc = "loop" =>
          /\ sIdx' = sIdx + 1
          /\ TickBudget(accumulated', sIdx') = TickBudget(accumulated, sIdx)
     /\ TickEnds /\ RGt(dt, RZero) =>
          LET a == TickBudget(accumulated', sIdx')
          IN  /\ sIdx' = Min(RFloor(RDiv(a, dt)), 10)
              /\ sIdx' <= 10
              /\ accumulated' = RSub(a, RMul(RInt(sIdx'), dt))
              /\ RFloor(RDiv(a, dt)) <= 10 =>
                   RGe(accumulated', RZero) /\ RLt(accumulated', dt)
              /\ RFloor(RDiv(a, dt)) > 10 => RGe(accumulated', dt)]_vars

\* a tick has hit the cap and left more than one step size unconsumed
C5_Witness ==
  /\ pc = "idle"
  /\ ticks > 0
  /\ sIdx = 10
  /\ steps = 10
  /\ RGt(dt, RZero)
  /\ RGe(accumulated, dt)

Last(q) == q[Len(q)]

\* C6: every integration step advances the time by exactly h, replaces the
\* state vector by the RK4 result and pushes exactly one history entry
\* stamped with the new time; so the newest entry of a non-empty history
\* carries the current time, and with constant h the time is
\* (number of steps since the last reset) * h.
C6_StepAdvances ==
  /\ [](/\ genHistoryRef # <<>> => Last(genHistoryRef).time = timeRef
        /\ timeRef = RMul(RInt(Len(genHistoryRef)), dt))
  /\ [][pc = "loop" =>
          /\ timeRef' = RAdd(timeRef, dt)
          /\ stateRef' = rk4(particles, Layout, stateRef, dt, timeRef)
          /\ Len(genHistoryRef') = Len(genHistoryRef) + 1
          /\ SubSeq(genHistoryRef', 1, Len(genHistoryRef)) = genHistoryRef
          /\ Last(genHistoryRef').time = timeRef']_vars

\* ten steps of 1/2 have run since a reset
C6_Witness ==
  /\ builds = 2
  /\ dt = Rat(1, 2)
  /\ Len(genHistoryRef) = 10
  /\ timeRef = RInt(5)

\* number of entries pushed so far in the long run
Pushed == RFloor(RDiv(timeRef, dt))

\* C7: the history never holds more than 2000 entries after a step; once
\* more than 2000 have been pushed its length is exactly 2000, it holds
\* exactly the most recently pushed entries, oldest first with strictly
\* increasing times.
C7_HistoryCap ==
  /\ Len(genHistoryRef) <= HistoryCap
  /\ Len(genHistoryRef) = Min(Pushed, HistoryCap)
  /\ \A i \in 1..Len(genHistoryRef) :
       genHistoryRef[i] = EntryOfStep(Pushed - Len(genHistoryRef) + i)
  /\ \A i \in 1..(Len(genHistoryRef) - 1) :
       RLt(genHistoryRef[i].time, genHistoryRef[i + 1].time)

\* more than 2000 entries have been pushed: the oldest ones are gone
C7_Witness ==
  /\ Pushed > HistoryCap + 5
  /\ Len(genHistoryRef) = HistoryCap
  /\ genHistoryRef[1].time = RMul(RInt(Pushed - HistoryCap + 1), dt)

\* ------------------------------------------------------------------------
\* Claims about the Poincare sampling
\* ------------------------------------------------------------------------
\* the full scopes of the state before and after the step being taken
ScopeBefore == getFullScope(particles, nameToIndexRef, stateRef, timeRef)
ScopeAfter == getFullScope(particles, nameToIndexRef, stateRef', timeRef')

\* the point samplePoincare appends
PlotPoint(scope) == <<scope[poincareConfig.plotX], scope[poincareConfig.plotY]>>
Plottable(scope) == Has(scope, poincareConfig.plotX) /\ Has(scope, poincareConfig.plotY)

\* the crossing rule of the plane mode
PlaneRule(direction, prev, new, thr) ==
  LET up == RLt(prev, thr) /\ RGe(new, thr)
      down == RGt(prev, thr) /\ RLe(new, thr)
  IN  CASE direction = "positive" -> up
        [] direction = "negative" -> down
        [] direction = "both" -> up \/ down

\* a step in plane mode whose planeVar, plotX and plotY are numbers and
\* whose plane value is a number
PlaneStep ==
  /\ pc = "loop"
  /\ poincareConfig.mode = "plane"
  /\ poincareConfig.planeValue \notin NotNumeric
  /\ Has(ScopeBefore, poincareConfig.planeVar)
  /\ Has(ScopeAfter, poincareConfig.planeVar)
  /\ Plottable(ScopeAfter)

\* C8: in plane mode, with prev and new the pre-step and post-step values
\* of planeVar and thr the plane value, one step emits a point iff
\* direction positive and prev < thr <= new, or direction negative and
\* prev > thr >= new, or direction both and either; for the values -1 and 1
\* across one step with plane value 0, positive emits exactly one point and
\* negative none.
C8_PlaneCrossing ==
  [][PlaneStep =>
       LET prev == ScopeBefore[poincareConfig.planeVar]
           new == ScopeAfter[poincareConfig.planeVar]
           thr == NumberOf(poincareConfig.planeValue)
       IN  /\ IF PlaneRule(poincareConfig.direction, prev, new, thr)
              THEN poincarePoints' = Append(poincarePoints, PlotPoint(ScopeAfter))
              ELSE poincarePoints' = poincarePoints
           /\ prev = RInt(-1) /\ new = ROne /\ thr = RZero =>
                /\ poincareConfig.direction = "positive" =>
                     Len(poincarePoints') = Len(poincarePoints) + 1
                /\ poincareConfig.direction = "negative" =>
                     poincarePoints' = poincarePoints]_vars

\* x went from -1 to 1 in one step of 2 and the positive plane x = 0 took
\* one point
C8_Witness ==
  /\ poincareConfig.mode = "plane"
  /\ poincareConfig.planeVar = "p1_x"
  /\ poincareConfig.planeValue = "0"
  /\ poincareConfig.direction = "positive"
  /\ dt = RInt(2)
  /\ timeRef = RInt(2)
  /\ stateRef[1] = ROne
  /\ poincarePoints = <<<<ROne, RInt(-1)>>>>

\* the period strings of DriverSettings, evaluated: "t" is the time after
\* the step; "" compiles to nothing and "x" is no key of the full scope,
\* and both count as 0
PeriodValue ==
  CASE poincareConfig.period = "1" -> ROne
    [] poincareConfig.period = "2" -> RInt(2)
    [] poincareConfig.period = "-1" -> RInt(-1)
    [] poincareConfig.period = "t" -> timeRef'
    [] poincareConfig.period \in {"", "x"} -> RZero

\* C9: in time mode a step ending at t emits exactly one point iff the
\* evaluated period T is > 0 and floor(t/T) > floor((t-h)/T) and plotX and
\* plotY are numbers, otherwise none; at most one point per step even when
\* the quotient grows by more than one, and none when T <= 0.
C9_TimeSampling ==
  [][pc = "loop" /\ poincareConfig.mode = "time" =>
       /\ IF /\ RGt(PeriodValue, RZero)
             /\ RFloor(RDiv(timeRef', PeriodValue)) >
                  RFloor(RDiv(RSub(timeRef', dt), PeriodValue))
             /\ Plottable(ScopeAfter)
          THEN poincarePoints' = Append(poincarePoints, PlotPoint(ScopeAfter))
          ELSE poincarePoints' = poincarePoints
       /\ Len(poincarePoints') <= Len(poincarePoints) + 1
       /\ RLe(PeriodValue, RZero) => poincarePoints' = poincarePoints]_vars

\* one step of 3 with period 1: the quotient went from 0 to 3, one point
C9_Witness ==
  /\ poincareConfig.mode = "time"
  /\ poincareConfig.period = "1"
  /\ dt = RInt(3)
  /\ timeRef = RInt(3)
  /\ Len(poincarePoints) = 1

\* period 1 with h = 0.3 on x' = 1, y' = -1
TenthsRun ==
  /\ particles = RampSystem
  /\ poincareConfig = TimeConfig("1")
  /\ dt = Rat(3, 10)

\* (as first stated) samples at the steps ending at t = 1.2 and t = 2.4
C10_Original ==
  [][TenthsRun /\ pc = "loop" /\ RLe(timeRef', Rat(27, 10)) =>
       IF timeRef' \in {Rat(12, 10), Rat(24, 10)}
       THEN Len(poincarePoints') = Len(poincarePoints) + 1
       ELSE poincarePoints' = poincarePoints]_vars

\* C10: with period 1 and h = 0.3, stepping from t = 0 to 0.3, 0.6, ...,
\* 2.7, exactly one sample is emitted at the first step ending at or after
\* each integer multiple of 1: at the steps ending at t = 1.2 and t = 2.1.
C10_TenthsSamples ==
  [][TenthsRun /\ pc = "loop" /\ RLe(timeRef', Rat(27, 10)) =>
       IF timeRef' \in {Rat(12, 10), Rat(21, 10)}
       THEN Len(poincarePoints') = Len(poincarePoints) + 1
       ELSE poincarePoints' = poincarePoints]_vars

\* at t = 2.7 the two points are those of t = 1.2 and t = 2.1
C10_Witness ==
  /\ TenthsRun
  /\ timeRef = Rat(27, 10)
  /\ poincarePoints = <<<<Rat(1, 5), Rat(-1, 5)>>, <<Rat(11, 10), Rat(-11, 10)>>>>

\* ------------------------------------------------------------------------
\* Properties of the run under live edits (checked under SpecOps)
\* ------------------------------------------------------------------------
IsPrefix(a, b) == Len(a) <= Len(b) /\ SubSeq(b, 1, Len(a)) = a

\* C11: the Poincare points are append-only.  Over every step, frame
\* callback, rebuild by a Variable edit, resetAll, applyAndCompile, start or
\* stop and Poincare configuration change, the points before the operation
\* are a prefix of the points after it; the one operation that shrinks the
\* sequence is onClear, and it leaves the sequence empty.
C11_AppendOnly ==
  [][ \/ IsPrefix(poincarePoints, poincarePoints')
      \/ onClear /\ poincarePoints' = <<>> ]_vars

\* two points sampled in a run that saw an edit and then a reset or an apply
C11_Witness == Len(poincarePoints) >= 2 /\ edits = 1 /\ builds = 2

\* the step about to run reads a name that is not a number in the full scope
PlaneVarUnresolved ==
  \/ ~Has(ScopeBefore, poincareConfig.planeVar)
  \/ ~Has(ScopeAfter, poincareConfig.planeVar)
PlotUnresolved == ~Plottable(ScopeAfter)

\* the step ran to its end: time advanced by h, one entry stamped with the
\* new time pushed, the loop index moved on
StepCompleted ==
  /\ timeRef' = RAdd(timeRef, dt)
  /\ Len(stateRef') = Len(stateRef)
  /\ Len(genHistoryRef') = Len(genHistoryRef) + 1
  /\ Last(genHistoryRef').time = timeRef'
  /\ sIdx' = sIdx + 1

\* C12 (as stated): a step with planeVar unresolved in the pre-step or the
\* post-step scope, or with plotX or plotY unresolved, emits no point.
C12_Original ==
  [][pc = "loop" /\ (PlaneVarUnresolved \/ PlotUnresolved)
       => poincarePoints' = poincarePoints]_vars

\* C12 (amended): a step with plotX or plotY unresolved in the post-step
\* scope, or, in plane mode, with planeVar unresolved in the pre-step or the
\* post-step scope, emits no Poincare point and still completes its state,
\* time and history updates.  (In time mode planeVar is not read.)
C12_UnresolvedSkips ==
  [][pc = "loop" /\ (PlotUnresolved \/ (poincareConfig.mode = "plane" /\ PlaneVarUnresolved))
       => poincarePoints' = poincarePoints /\ StepCompleted]_vars

\* a run stepped, after a rename and an apply, with a stale plotY on a state
\* that has reached the plane
C12_Witness ==
  /\ edits = 1 /\ builds = 2
  /\ poincareConfig.mode = "plane"
  /\ ~Has(getFullScope(particles, nameToIndexRef, stateRef, timeRef), poincareConfig.plotY)
  /\ RGe(timeRef, ROne)
  /\ poincarePoints = <<>>

\* ------------------------------------------------------------------------
\* Claims about faults (checked under SpecRK4)
\* ------------------------------------------------------------------------
\* the index of the faulty equation of a system of FaultSystems
FaultyIndex(ps) == IF ps = PartialSystem THEN 2 ELSE 1

\* the four (state, time) pairs the stages of one step evaluate f at
StageInputs(ps, y, h, t) ==
  LET half == RDiv(h, RInt(2))
      k1 == DerivOf(ps, y, t)
      k2 == DerivOf(ps, Axpy(y, half, k1), RAdd(t, half))
      k3 == DerivOf(ps, Axpy(y, half, k2), RAdd(t, half))
  IN  << <<y, t>>, <<Axpy(y, half, k1), RAdd(t, half)>>,
         <<Axpy(y, half, k2), RAdd(t, half)>>, <<Axpy(y, h, k3), RAdd(t, h)>> >>

\* C13: a fault in one equation (an unknown identifier, an unparsable
\* expression) does not abort the step.  In each of the four RK4 stages the
\* faulty component of f is 0 and the other component is the value of its own
\* expression; the step completes: the faulty slot keeps its value, the
\* other slot is the RK4 update of its own equation, time advances by h and
\* one history entry is pushed.
C13_FaultIsolated ==
  [][(particles \in FaultSystems) =>
       (LET fi == FaultyIndex(particles)
            oi == 3 - fi
            stages == StageInputs(particles, stateRef, dt, timeRef)
        IN  /\ \A s \in 1..4 :
                 LET k == evalDeriv(particles, Layout, stages[s][1], stages[s][2])
                 IN  /\ k[fi] = RZero
                     /\ k[oi] = (IF particles = MalformedSystem THEN RNeg(stages[s][1][fi])
                                 ELSE stages[s][1][fi])
            /\ stateRef'[fi] = stateRef[fi]
            /\ stateRef'[oi] =
                 (IF particles = MalformedSystem
                  THEN RSub(stateRef[oi], RMul(dt, stateRef[fi]))
                  ELSE RAdd(stateRef[oi], RMul(dt, stateRef[fi])))
            /\ StepCompleted)
    ]_vars

\* x' = q, y' = x has taken one step of 1/2 from (2, 0): x kept, y = 1
C13_Witness ==
  /\ particles = UnknownSystem
  /\ dt = Rat(1, 2)
  /\ pc = "idle"
  /\ stateRef = <<RInt(2), ROne>>
  /\ Len(genHistoryRef) = 1

\* ------------------------------------------------------------------------
\* Claims about the expression compiler (checked under SpecBuild)
\* ------------------------------------------------------------------------
\* scopes an expression may meet: any of x, y, x_dot bound, all to -1 or to 2
ProbeScopes ==
  {[n \in D |-> RInt(v)] : D \in SUBSET {"x", "y", "x_dot"}, v \in {-1, 2}}

\* strings with no parse: empty, blank, or rejected by math.parse
Unparsable(e) == IsBlank(e) \/ e \in Malformed

\* C14: compiling never fails.  An empty, a whitespace-only and a malformed
\* string each compile to an entry that evaluates to 0 in every scope; the
\* equation entry built from such a Variable expression evaluates to 0 in
\* every scope for as long as the Variable keeps that expression, across
\* rebuilds, resets and applies.
C14_CompileTotal ==
  LET vl == VarList(particles)
  IN  /\ \A e \in {"", " ", "  "} \cup Malformed :
           \A sc \in ProbeScopes : evaluateNode(compileExpression(e), sc) = RZero
      /\ \A i \in 1..Len(vl) :
           (vl[i].g.order >= 1 /\ Unparsable(vl[i].g.expr)) =>
             \A sc \in ProbeScopes :
               evaluateNode(compiledRef[SlotOffset(vl, i) + vl[i].g.order], sc) = RZero

\* an edit has put the malformed "1+" on a Variable that has an equation
C14_Witness ==
  /\ edits = 1
  /\ \E i \in 1..Len(VarList(particles)) :
       /\ VarList(particles)[i].g.order >= 1
       /\ VarList(particles)[i].g.expr = "1+"
       /\ compiledRef[SlotOffset(VarList(particles), i) + VarList(particles)[i].g.order]
            = NullNode

\* ------------------------------------------------------------------------
\* Claims about the coercion of results (checked under SpecRK4)
\* ------------------------------------------------------------------------
\* results of every JavaScript type the coercion tells apart
RawResults ==
  { RawNumber(RInt(2)), RawNumber(Rat(-1, 2)), RawNumber(RZero),
    RawBoolean(TRUE), RawBoolean(FALSE),
    RawString("5"), RawString("-2"), RawString("abc"), RawString(""), RawNull,
    RawArray(<<>>), RawArray(<<RawNumber(RInt(3))>>),
    RawArray(<<RawNumber(RInt(3)), RawNumber(RInt(4))>>),
    RawArray(<<RawNull, RawNumber(RInt(4))>>), RawArray(<<RawString("abc")>>) }

\* the coercion as the claim words it
ClaimedCoercion(v) ==
  IF "num" \in DOMAIN v THEN v
  ELSE IF "arr" \in DOMAIN v /\ Len(v.arr) > 0 THEN v.arr[1]
  ELSE RawNumber(RZero)

\* C15 (as stated): the result is always a number: a number unchanged, the
\* first element of an array, 0 for every other non-numeric result; so an
\* equation whose expression gives a boolean or a string has derivative 0.
C15_Original ==
  /\ \A v \in RawResults :
       /\ "num" \in DOMAIN coerce(v)
       /\ coerce(v) = ClaimedCoercion(v)
  /\ particles \in CoercionSystems =>
       evalDeriv(particles, Layout, stateRef, timeRef) = <<RZero>>

\* C15 (amended): a number is returned unchanged; an array gives its first
\* element as it is, and 0 when it is empty or starts with null/undefined;
\* any other result v gives Number(v), or 0 when that is NaN: true gives 1,
\* false 0, a numeric string its number, any other string 0, null 0.  So the
\* equation x' = x>0 has derivative 1 where x > 0, and x' = "5" derivative 5.
C15_Coercion ==
  /\ \A v \in RawResults : "num" \in DOMAIN v => coerce(v) = v
  /\ coerce(RawBoolean(TRUE)) = RawNumber(ROne)
  /\ coerce(RawBoolean(FALSE)) = RawNumber(RZero)
  /\ coerce(RawString("5")) = RawNumber(RInt(5))
  /\ coerce(RawString("-2")) = RawNumber(RInt(-2))
  /\ coerce(RawString("abc")) = RawNumber(RZero)
  /\ coerce(RawString("")) = RawNumber(RZero)
  /\ coerce(RawNull) = RawNumber(RZero)
  /\ coerce(RawArray(<<>>)) = RawNumber(RZero)
  /\ coerce(RawArray(<<RawNull, RawNumber(RInt(4))>>)) = RawNumber(RZero)
  /\ coerce(RawArray(<<RawNumber(RInt(3)), RawNumber(RInt(4))>>)) = RawNumber(RInt(3))
  /\ coerce(RawArray(<<RawString("abc")>>)) = RawString("abc")
  /\ particles = BooleanSystem =>
       evalDeriv(particles, Layout, stateRef, timeRef)
         = <<IF RGt(stateRef[1], RZero) THEN ROne ELSE RZero>>
  /\ particles = DigitStringSystem =>
       evalDeriv(particles, Layout, stateRef, timeRef) = <<RInt(5)>>
  /\ particles = WordStringSystem =>
       evalDeriv(particles, Layout, stateRef, timeRef) = <<RZero>>

\* x' = x>0 has taken one step of 1/2 from x = 2: the boolean counted as 1
C15_Witness ==
  /\ particles = BooleanSystem
  /\ dt = Rat(1, 2)
  /\ pc = "idle"
  /\ stateRef = <<Rat(5, 2)>>

\* ------------------------------------------------------------------------
\* Claims about rebuilds during a run (checked under SpecOps)
\* ------------------------------------------------------------------------
\* C16 (as stated): a rebuild by a Variable edit after the state has advanced
\* from the initial conditions keeps, for every slot whose
\* qualified name exists before and after it, the value the slot held before,
\* and gives every other slot its initial condition.
C16_CopyForward ==
  [][(particles' # particles /\ RGt(timeRef, RZero) /\ stateRef # S0Of(particles)) =>
       \A n \in DOMAIN nameToIndexRef' :
         stateRef'[nameToIndexRef'[n] + 1] =
           (IF n \in DOMAIN nameToIndexRef THEN stateRef[nameToIndexRef[n] + 1]
            ELSE S0Of(particles')[nameToIndexRef'[n] + 1])]_vars

OwnersOf(ps) ==
  LET vl == VarList(ps)
  IN  ConcatAll([i \in 1..Len(vl) |-> [o \in 1..vl[i].g.order |-> vl[i].p.id]])

\* C18 (as stated): after a buildSystem pass the list of owner ids is as
\* long as the equation list, its i-th entry is the id of the subsystem whose
\* Variable produced slot i, and f evaluates equation i against the local
\* scope of that subsystem.
C18_OwnersAligned ==
  /\ Len(exprParticleIdsRef) = Len(compiledRef)
  /\ exprParticleIdsRef = OwnersOf(particles)
  /\ evalDeriv(particles, Layout, stateRef, timeRef) =
       [i \in 1..Len(compiledRef) |->
          evaluateNode(compiledRef[i],
                       createEvalScope(particles, OwnersOf(particles)[i],
                                       getFullScope(particles, nameToIndexRef,
                                                    stateRef, timeRef)))]

\* f at the current state, and the companion form of the Variable at
\* position i of the visited list: every slot below the last has the value
\* of the next slot as its derivative, the last one the value of the user
\* expression in the local scope evalDeriv builds for it
CompanionFormAt(vl, i) ==
  LET g == vl[i].g
      off == SlotOffset(vl, i)
      f == evalDeriv(particles, Layout, stateRef, timeRef)
  IN  /\ \A k \in 1..(g.order - 1) : f[off + k] = stateRef[off + k + 1]
      /\ g.order >= 1 =>
           f[off + g.order] =
             evaluateNode(UserEntry(g.expr),
                          createEvalScope(particles,
                                          IF off + g.order <= Len(exprParticleIdsRef)
                                          THEN exprParticleIdsRef[off + g.order] ELSE NoPid,
                                          getFullScope(particles, nameToIndexRef,
                                                       stateRef, timeRef)))

\* C19 (as stated): companion form.  For a Variable of order N >= 2 at slots
\* s..s+N-1, f(y,t)[s+k] = y[s+k+1] for every k in 0..N-2 and f(y,t)[s+N-1]
\* is the value of the user expression; a Variable of order 1 has the value
\* of its user expression at its slot.
C19_CompanionForm ==
  \A i \in 1..Len(VarList(particles)) : CompanionFormAt(VarList(particles), i)

\* C19 (where the qualified names are pairwise distinct): the same companion
\* form holds for every Variable of a system no two entries of whose expanded
\* name list (state slots and order-0 names) are equal.
C19_CompanionFormDistinct ==
  (\A i, j \in 1..Len(ExpandedOf(particles)) :
     i # j => ExpandedOf(particles)[i] # ExpandedOf(particles)[j])
    => \A i \in 1..Len(VarList(particles)) : CompanionFormAt(VarList(particles), i)
\* ------------------------------------------------------------------------
\* C20: the dependency loop of getFullScope (checked under SpecChain)
\* ------------------------------------------------------------------------
RECURSIVE Symbols(_)
Symbols(node) ==
  IF node.op = "sym" THEN {node.name}
  ELSE UNION {Symbols(node.args[i]) : i \in 1..Len(node.args)}

\* the names under which an expression can read the order-0 Variable w: its
\* qualified key and the two aliases createEvalScope makes of it
ReadsAs(w) == {BaseName(w.p, w.g), w.g.name \o ToString(w.p.id), w.g.name}
DependsOn(v, w) == Symbols(compileExpression(v.g.expr)) \cap ReadsAs(w) # {}

MaxOf(S) == CHOOSE m \in S : \A n \in S : n <= m

\* dependency depth of the i-th order-0 Variable of zs, followed for `fuel`
\* levels: 1 when it reads no order-0 Variable
RECURSIVE DepthOf(_, _, _)
DepthOf(zs, i, fuel) ==
  IF fuel = 0 THEN 0
  ELSE 1 + MaxOf({0} \cup {DepthOf(zs, j, fuel - 1) :
                            j \in {k \in 1..Len(zs) : DependsOn(zs[i], zs[k])}})

Depth(zs, i) == DepthOf(zs, i, ScopePasses + 1)

\* the order-0 Variables by increasing depth: every Variable after the ones
\* it reads
DependencyOrder(zs) ==
  ConcatAll([d \in 1..(ScopePasses + 1) |->
    ConcatAll([i \in 1..Len(zs) |-> IF Depth(zs, i) = d THEN <<zs[i]>> ELSE <<>>])])

\* the fully propagated values: each order-0 Variable evaluated once, after
\* the Variables it reads
Propagated(ps, map, y, tNow) ==
  ZeroOrderPass(ps, DependencyOrder(ZeroOrderList(ps)), seedScope(map, y, tNow))

KeysOf(zs) == {BaseName(zs[i].p, zs[i].g) : i \in 1..Len(zs)}

\* C20: the scope getFullScope returns holds the seeded keys and one
\* qualified key per order-0 Variable; when no order-0 Variable has a
\* dependency depth above the three passes, every one of them holds its fully
\* propagated value, in every declaration order; and the passes are exactly
\* three: the head of a chain of depth four declared head first is not
\* propagated.
C20_ChainPropagated ==
  \A scope \in {getFullScope(particles, nameToIndexRef, stateRef, timeRef)} :
    \A full \in {Propagated(particles, nameToIndexRef, stateRef, timeRef)} :
      LET zs == ZeroOrderList(particles)
      IN  /\ DOMAIN scope =
               DOMAIN seedScope(nameToIndexRef, stateRef, timeRef) \cup KeysOf(zs)
          /\ (\A i \in 1..Len(zs) : Depth(zs, i) <= ScopePasses)
               => \A k \in KeysOf(zs) : scope[k] = full[k]
          /\ particles = LongChain => scope["p1_x"] # full["p1_x"]

\* a chain declared head first in one subsystem (x, then y, then z) has been
\* stepped, holds a non-zero propagated value in x, and the history entry of
\* the step recorded that value
C20_Witness ==
  /\ particles \in ChainLayouts(ChainVars("-y", "z", "q"))
  /\ Len(particles[1].vars) = 3
  /\ genHistoryRef # <<>>
  /\ \A scope \in {getFullScope(particles, nameToIndexRef, stateRef, timeRef)} :
       /\ scope["p1_x"] = RNeg(stateRef[1])
       /\ scope["p1_x"] # RZero
       /\ genHistoryRef[Len(genHistoryRef)].values[1] = scope["p1_x"]
\* ------------------------------------------------------------------------
\* C21: unprefixed names in the local scope (checked under SpecShared)
\* ------------------------------------------------------------------------
\* the scope of the current state and the local scope of subsystem pid
CurrentScope == getFullScope(particles, nameToIndexRef, stateRef, timeRef)
LocalScope(pid) == createEvalScope(particles, pid, CurrentScope)

\* the short names subsystem pid defines, and the first visited triple that
\* defines the short name n
ShortNamesOf(pid) ==
  {AliasList(particles)[i].short :
     i \in {j \in 1..Len(AliasList(particles)) : AliasList(particles)[j].pid = pid}}
FirstDefiner(n) ==
  AliasList(particles)[CHOOSE i \in 1..Len(AliasList(particles)) :
                         /\ AliasList(particles)[i].short = n
                         /\ \A j \in 1..(i - 1) : AliasList(particles)[j].short # n]

\* in the local scope of subsystem pid: every short name of pid holds pid's
\* own value, every other short name the value of its first definer
OwnNamesBound(pid) ==
  \A i \in 1..Len(AliasList(particles)) :
    AliasList(particles)[i].pid = pid
      => LocalScope(pid)[AliasList(particles)[i].short]
           = CurrentScope[AliasList(particles)[i].full]
OtherNamesBound(pid) ==
  \A i \in 1..Len(AliasList(particles)) :
    AliasList(particles)[i].short \notin ShortNamesOf(pid)
      => LocalScope(pid)[AliasList(particles)[i].short]
           = CurrentScope[FirstDefiner(AliasList(particles)[i].short).full]

\* C21: for every subsystem S, every unprefixed short name S defines is bound
\* to S's own value, and every short name S does not define is bound to the
\* value of the first subsystem in list order that defines it.
C21_LocalNames ==
  \A k \in 1..Len(particles) :
    OwnNamesBound(particles[k].id) /\ OtherNamesBound(particles[k].id)

\* the names the local scope holds before or beside the unprefixed aliases:
\* t, the constants, and the id-suffixed aliases
SuffixedAliases ==
  {AliasList(particles)[i].short \o ToString(AliasList(particles)[i].pid) :
     i \in 1..Len(AliasList(particles))}
Reserved == {"t"} \cup DOMAIN baseScope \cup SuffixedAliases

\* C21 (where no short name is reserved): the same binding holds in every
\* system none of whose short names is t, a constant or an id-suffixed alias.
C21_LocalNamesUnreserved ==
  (\A k \in 1..Len(particles) : ShortNamesOf(particles[k].id) \cap Reserved = {})
    => C21_LocalNames
\* ------------------------------------------------------------------------
\* C22: id-suffixed names in the local scope (checked under SpecShared)
\* ------------------------------------------------------------------------
\* the documented id-suffixed name of derivative o of Variable g of
\* subsystem p (x2, y2_dot), and the key of its value
DocumentedName(p, g, o) == g.name \o ToString(p.id) \o SuffixOf(o)
QualifiedName(p, g, o) == "p" \o ToString(p.id) \o "_" \o g.name \o SuffixOf(o)

\* C22: in every local scope each value and derivative of each Variable is
\* bound under its name with the subsystem id placed before the derivative
\* suffix, so that y2' (rewritten to y2_dot) evaluates to the first
\* derivative of y of subsystem 2.
C22_SuffixedNames ==
  /\ \A s \in 1..Len(particles) : \A k \in 1..Len(particles) :
       \A j \in 1..Len(particles[k].vars) :
         \A o \in 0..(particles[k].vars[j].order - 1) :
           /\ Has(LocalScope(particles[s].id),
                  DocumentedName(particles[k], particles[k].vars[j], o))
           /\ LocalScope(particles[s].id)[DocumentedName(particles[k], particles[k].vars[j], o)]
                = CurrentScope[QualifiedName(particles[k], particles[k].vars[j], o)]
  /\ (particles[1].vars[1].expr = "y2'" /\ Has(CurrentScope, "p2_y_dot"))
       => evalDeriv(particles, Layout, stateRef, timeRef)[1] = CurrentScope["p2_y_dot"]

\* C22 (as the aliases are written): where no short name is reserved, every
\* visited value is bound under its short name followed by the subsystem id
\* (x2, y_dot2).
C22_SuffixedAsWritten ==
  (\A k \in 1..Len(particles) : ShortNamesOf(particles[k].id) \cap Reserved = {})
    => \A s \in 1..Len(particles) : \A i \in 1..Len(AliasList(particles)) :
         LocalScope(particles[s].id)[AliasList(particles)[i].short
                                       \o ToString(AliasList(particles)[i].pid)]
           = CurrentScope[AliasList(particles)[i].full]
\* ------------------------------------------------------------------------
\* C23: dist in the local scopes (checked under SpecDist)
\* ------------------------------------------------------------------------
\* the distance between the subsystems at positions a and b of the list, read
\* from the scope of the current state
DistanceNow(a, b) ==
  CallDist(DistBinding(particles), CurrentScope, RInt(a), RInt(b))

\* the value of a call of dist written as the string e
CallValue(e) ==
  LET node == compileExpression(e)
  IN  DistanceNow(node.args[1].num[1], node.args[2].num[1])

\* C23 (equations): the right-hand side of an equation that is a call of
\* dist evaluates to the distance.
C23_DistInEquations ==
  \A i \in 1..Len(VarList(particles)) :
    LET g == VarList(particles)[i].g
    IN  (g.order = 1 /\ g.expr \in DistCalls)
          => evalDeriv(particles, Layout, stateRef, timeRef)[SlotOffset(VarList(particles), i) + 1]
               = CallValue(g.expr)

\* C23: dist is bound in the scope of every equation and in the scope of
\* every order-0 expression, so an order-0 Variable whose expression is a call
\* of dist holds the distance in the full scope.
C23_DistEverywhere ==
  /\ C23_DistInEquations
  /\ \A i \in 1..Len(ZeroOrderList(particles)) :
       LET z == ZeroOrderList(particles)[i]
       IN  z.g.expr \in DistCalls => CurrentScope[BaseName(z.p, z.g)] = CallValue(z.g.expr)
\* ------------------------------------------------------------------------
\* C24: compilation during a step (checked under SpecChain)
\* ------------------------------------------------------------------------
\* C24: between two buildSystem passes no step parses the expression of any
\* Variable, of any order.
C24_NoParseInStep == variableParses = 0

\* C24 (Variables of order 1 and above): a step of a system without order-0
\* Variables parses no Variable expression; its equations are evaluated from
\* compiledRef.
C24_NoParseOfEquations == ZeroOrderList(particles) = <<>> => variableParses = 0
\* ------------------------------------------------------------------------
\* C25: edits of the display metadata (checked under SpecOps)
\* ------------------------------------------------------------------------
\* C25: an edit of a subsystem's colour or visibility leaves the state
\* vector, the simulation time, the history and the layout unchanged, also
\* after the simulation has advanced.
C25_DisplayOpaque ==
  [][(updateParticleColor \/ toggleParticleVisibility)
       => /\ stateRef' = stateRef
          /\ timeRef' = timeRef
          /\ genHistoryRef' = genHistoryRef
          /\ compiledRef' = compiledRef
          /\ exprParticleIdsRef' = exprParticleIdsRef
          /\ expandedVarNamesRef' = expandedVarNamesRef
          /\ nameToIndexRef' = nameToIndexRef]_vars

\* C25 (time, history and layout): the same edit leaves the simulation time,
\* the history and the layout unchanged.
C25_DisplayKeepsLayout ==
  [][(updateParticleColor \/ toggleParticleVisibility)
       => /\ timeRef' = timeRef
          /\ genHistoryRef' = genHistoryRef
          /\ compiledRef' = compiledRef
          /\ exprParticleIdsRef' = exprParticleIdsRef
          /\ expandedVarNamesRef' = expandedVarNamesRef
          /\ nameToIndexRef' = nameToIndexRef]_vars
\* ------------------------------------------------------------------------
\* C26: a subsystem's own names against id-suffixed aliases (checked under
\* SpecShared)
\* ------------------------------------------------------------------------
\* C26: in the local scope of every subsystem S the unprefixed name of each
\* of S's own Variables holds S's value once all aliases are written, also
\* when an id-suffixed alias of another subsystem spells that name; an
\* equation of subsystem 1 that reads its own x2 gets the value of p1_x2.
C26_OwnNamesWin ==
  /\ \A k \in 1..Len(particles) : OwnNamesBound(particles[k].id)
  /\ (particles[1].vars[1].expr = "x2" /\ Has(CurrentScope, "p1_x2"))
       => evalDeriv(particles, Layout, stateRef, timeRef)[1] = CurrentScope["p1_x2"]

\* C26 (where no id-suffixed alias spells a short name): the own names hold
\* the own values, also for a Variable named like a constant.
C26_OwnNamesWinUnsuffixed ==
  (\A k \in 1..Len(particles) : ShortNamesOf(particles[k].id) \cap SuffixedAliases = {})
    => C26_OwnNamesWin
\* ------------------------------------------------------------------------
\* C27: distinct names, distinct slots (checked under SpecBuild)
\* ------------------------------------------------------------------------
\* the Variable names of every subsystem are valid identifiers, pairwise
\* distinct within the subsystem
NamesValid(ps) ==
  \A k \in 1..Len(ps) : \A i \in 1..Len(ps[k].vars) :
    /\ IsIdentifier(ps[k].vars[i].name)
    /\ \A j \in 1..Len(ps[k].vars) : i # j => ps[k].vars[i].name # ps[k].vars[j].name

EndsWith(str, suffix) ==
  Len(str) >= Len(suffix) /\ SubSeq(str, Len(str) - Len(suffix) + 1, Len(str)) = suffix
NoDerivativeNames(ps) ==
  \A k \in 1..Len(ps) : \A i \in 1..Len(ps[k].vars) : \A o \in 1..3 :
    ~EndsWith(ps[k].vars[i].name, SuffixOf(o))

\* the slot names are pairwise distinct and nameToIndex maps them one to one
\* onto the indices of the state vector
SlotsBijective ==
  /\ \A i, j \in 1..Len(SlotsOf(particles)) :
       i # j => SlotsOf(particles)[i] # SlotsOf(particles)[j]
  /\ DOMAIN nameToIndexRef = Range(SlotsOf(particles))
  /\ Cardinality(DOMAIN nameToIndexRef) = Len(stateRef)
  /\ {nameToIndexRef[n] : n \in DOMAIN nameToIndexRef} = 0..(Len(stateRef) - 1)

\* C27: where the Variable names of each subsystem are pairwise distinct
\* valid identifiers, the slot names are pairwise distinct and nameToIndex is
\* a bijection onto 0..n-1, also when a name ends in a derivative suffix.
C27_SlotsDistinct == NamesValid(particles) => SlotsBijective

\* C27 (names without derivative suffix): the same holds where, besides, no
\* Variable name ends in _dot, _ddot or _dddot.
C27_SlotsDistinctPlainNames ==
  (NamesValid(particles) /\ NoDerivativeNames(particles)) => SlotsBijective
\* ------------------------------------------------------------------------
\* C28: the history against the current layout (checked under SpecOps)
\* ------------------------------------------------------------------------
\* C28: every entry of the history has one value per name of the current
\* expandedNames (the least an entry recorded under the current layout
\* satisfies).
C28_HistoryMatchesLayout ==
  \A i \in 1..Len(genHistoryRef) :
    Len(genHistoryRef[i].values) = Len(expandedVarNamesRef)

\* C28 (the entry a step pushes): the entry pushed by a step has one value
\* per name of the layout the step ran under.
C28_PushedEntryMatches ==
  [][(timeRef' # timeRef /\ genHistoryRef' # <<>>)
       => Len(genHistoryRef'[Len(genHistoryRef')].values) = Len(expandedVarNamesRef')]_vars
ReSeeded ==
  /\ pc = "idle"
  /\ stateRef' # stateRef
  /\ stateRef' = S0Of(particles')

C30_ReseedResetsTime ==
  [][ReSeeded => (timeRef' = RZero /\ genHistoryRef' = <<>>)]_vars

\* a re-seeding operation either clears the time and the history together
\* (resetAll, applyAndCompile) or leaves both as they were (the rebuild of
\* an edit, the sidebar reset button)
C30_ReseedClearsOrKeeps ==
  [][ReSeeded => \/ (timeRef' = RZero /\ genHistoryRef' = <<>>)
                 \/ (timeRef' = timeRef /\ genHistoryRef' = genHistoryRef)]_vars
====
